---- MODULE Spec2Model ----
(***************************************************************************)
(* Habitat design store (src/src/stores/habitatStore.ts) together with the *)
(* validation engine and the geometry engine (src/src/utils/validation.ts).*)
(*                                                                         *)
(* Numbers.  The program computes with IEEE doubles; the model computes    *)
(* with fixed-point integers:                                              *)
(*   lengths in decimetres (4.0 m = 40), areas in dm2, volumes in litres   *)
(*   (1 m3 = 1000), masses in kg, power in kW, utilisation in 1/1000,      *)
(*   pi = PiNum / PiDen, division truncating.                              *)
(* A missing (undefined) dimension field is a key absent from the field    *)
(* map; 0 and negative values are ordinary integers.                       *)
(* A function that can throw returns [ok |-> FALSE] instead of a value.    *)
(***************************************************************************)
EXTENDS Integers, Sequences, FiniteSets, TLC

VARIABLES
    currentDesign,      \* store.currentDesign
    selectedModuleId,   \* store.selectedModuleId (0 = null)
    validationResults,  \* store.validationResults
    complianceScore,    \* store.complianceScore
    nextId,             \* ids handed out so far by generateId
    lastAct,            \* name of the last store action called
    outcome,            \* "returned" or "threw": how that call ended
    published,          \* store states delivered to the currentDesign subscriber during that call
    heldFindings,       \* after a validateDesign call: contents of the array validationResults referred to before it
    scoreInput,         \* finding list handed to calculateComplianceScore
    scoreOutput,        \* its result (-1 before the first call)
    subject,            \* design handed to the validator or to the geometry engine
    result,             \* [fn |-> the function applied to it, ...what it came to]
    requests,           \* APIService: for each method, where its latest call stands
    apiStore,           \* the API-integrated store: its API data, apiLoading and apiError
    apiCalls            \* its calls of initializeAPIData and submitDesignToCommunity, and where each stands

vars == <<currentDesign, selectedModuleId, validationResults, complianceScore,
          nextId, lastAct, outcome, published, heldFindings, scoreInput, scoreOutput,
          subject, result, requests, apiStore, apiCalls>>

storeVars == <<currentDesign, selectedModuleId, validationResults, complianceScore,
               nextId, lastAct, outcome, published, heldFindings>>

scoreVars == <<scoreInput, scoreOutput>>

callVars == <<subject, result, requests>>

apiVars == <<apiStore, apiCalls>>

-----------------------------------------------------------------------------
(* Bounds of the model *)

MaxIds == 1
MaxFindings == 7
MaxLinks == 2

-----------------------------------------------------------------------------
(* Arithmetic helpers *)

PiNum == 355
PiDen == 113

MulPi(x) == (x * PiNum) \div PiDen

Max2(a, b) == IF a >= b THEN a ELSE b
Min2(a, b) == IF a <= b THEN a ELSE b

\* Number.prototype.toFixed(1) of a volume: litres -> tenths of a cubic metre, rounded
ToFixed1(x) == (x + 50) \div 100

-----------------------------------------------------------------------------
(* src/src/constants/nasa-standards.ts *)

NHV_PER_CREW_MINIMUM == 25000
NHV_PER_CREW_OPTIMAL == 75000
SLEEP_VOLUME_PER_CREW == 2500
WORK_VOLUME_PER_CREW == 8000
COMMON_AREA_PER_CREW == 10000

MIN_CREW == 2
MAX_CREW_LARGE == 12

Infinity == 2000000000

MISSION_DURATIONS ==
    << [category |-> "SHORT_TERM",  min |-> 1,    max |-> 30],
       [category |-> "MEDIUM_TERM", min |-> 31,   max |-> 180],
       [category |-> "LONG_TERM",   min |-> 181,  max |-> 500],
       [category |-> "EXTENDED",    min |-> 501,  max |-> 1000],
       [category |-> "PERMANENT",   min |-> 1001, max |-> Infinity] >>

FairingKeys == {"FALCON_HEAVY", "SLS_BLOCK_1", "SLS_BLOCK_2", "STARSHIP"}

PAYLOAD_FAIRINGS ==
    [k \in FairingKeys |->
        CASE k = "FALCON_HEAVY" -> [diameter |-> 52, height |-> 131, mass_limit |-> 26700,  label |-> "SpaceX Falcon Heavy"]
          [] k = "SLS_BLOCK_1"  -> [diameter |-> 50, height |-> 191, mass_limit |-> 27000,  label |-> "NASA SLS Block 1"]
          [] k = "SLS_BLOCK_2"  -> [diameter |-> 84, height |-> 191, mass_limit |-> 45000,  label |-> "NASA SLS Block 2 (Future)"]
          [] k = "STARSHIP"     -> [diameter |-> 90, height |-> 180, mass_limit |-> 150000, label |-> "SpaceX Starship"]]

\* Object.entries(MODULE_TYPES), in declaration order
MODULE_TYPES ==
    << [key |-> "COMMAND",    essential |-> TRUE,  min_volume |-> 15000],
       [key |-> "HABITATION", essential |-> TRUE,  min_volume |-> 20000],
       [key |-> "LABORATORY", essential |-> FALSE, min_volume |-> 25000],
       [key |-> "LOGISTICS",  essential |-> TRUE,  min_volume |-> 10000],
       [key |-> "EXERCISE",   essential |-> TRUE,  min_volume |-> 15000],
       [key |-> "MEDICAL",    essential |-> TRUE,  min_volume |-> 8000],
       [key |-> "AIRLOCK",    essential |-> TRUE,  min_volume |-> 6000],
       [key |-> "GREENHOUSE", essential |-> FALSE, min_volume |-> 20000] >>

-----------------------------------------------------------------------------
(* String.prototype.toUpperCase / toLowerCase on the strings the model uses *)

VehicleIds == {"falcon_heavy", "sls_block_1", "sls_block_2", "starship", "Starship", "saturn_v"}

ToUpperCase(s) ==
    CASE s = "falcon_heavy" -> "FALCON_HEAVY"
      [] s = "sls_block_1"  -> "SLS_BLOCK_1"
      [] s = "sls_block_2"  -> "SLS_BLOCK_2"
      [] s = "starship"     -> "STARSHIP"
      [] s = "Starship"     -> "STARSHIP"
      [] s = "saturn_v"     -> "SATURN_V"
      [] s = "command"      -> "COMMAND"
      [] s = "habitation"   -> "HABITATION"
      [] s = "laboratory"   -> "LABORATORY"
      [] s = "logistics"    -> "LOGISTICS"
      [] s = "exercise"     -> "EXERCISE"
      [] s = "medical"      -> "MEDICAL"
      [] s = "airlock"      -> "AIRLOCK"
      [] s = "greenhouse"   -> "GREENHOUSE"
      [] s = "workshop"     -> "WORKSHOP"
      [] s = "recreation"   -> "RECREATION"

ToLowerCase(s) ==
    CASE s = "COMMAND"      -> "command"
      [] s = "HABITATION"   -> "habitation"
      [] s = "LABORATORY"   -> "laboratory"
      [] s = "LOGISTICS"    -> "logistics"
      [] s = "EXERCISE"     -> "exercise"
      [] s = "MEDICAL"      -> "medical"
      [] s = "AIRLOCK"      -> "airlock"
      [] s = "GREENHOUSE"   -> "greenhouse"

-----------------------------------------------------------------------------
(* HabitatDimensions: [shape, f] where f maps the fields that are present *)

Shapes == {"cylinder", "sphere", "torus", "dome", "inflatable", "modular", "custom"}

NoFields == [k \in {} |-> 0]

Has(d, k) == k \in DOMAIN d.f

\* JavaScript truthiness of the number d[k]: present and not 0
Truthy(d, k) == Has(d, k) /\ d.f[k] # 0

\* d[k] || dflt
OrElse(d, k, dflt) == IF Truthy(d, k) THEN d.f[k] ELSE dflt

Threw == [ok |-> FALSE, v |-> 0]

Value(x) == [ok |-> TRUE, v |-> x]

-----------------------------------------------------------------------------
(* HabitatGeometry *)

CalculateVolume(d) ==
    CASE d.shape = "cylinder" ->
            LET radius == OrElse(d, "radius", 40)
                height == OrElse(d, "height", 120)
            IN  IF radius <= 0 \/ height <= 0 THEN Threw
                ELSE Value(MulPi(radius * radius * height))
      [] d.shape = "sphere" ->
            LET sphereRadius == OrElse(d, "sphereRadius", 50)
            IN  IF sphereRadius <= 0 THEN Threw
                ELSE Value((4 * MulPi(sphereRadius * sphereRadius * sphereRadius)) \div 3)
      [] d.shape = "torus" ->
            LET majorRadius == OrElse(d, "majorRadius", 80)
                minorRadius == OrElse(d, "minorRadius", 30)
            IN  IF majorRadius <= 0 \/ minorRadius <= 0 THEN Threw
                ELSE Value(2 * MulPi(MulPi(majorRadius * minorRadius * minorRadius)))
      [] d.shape = "dome" ->
            LET domeRadius == OrElse(d, "domeRadius", 60)
                domeHeight == OrElse(d, "domeHeight", 40)
            IN  IF domeRadius <= 0 \/ domeHeight <= 0 THEN Threw
                ELSE Value(MulPi(domeHeight * domeHeight * (3 * domeRadius - domeHeight)) \div 3)
      [] d.shape = "inflatable" ->
            LET inflatedRadius == OrElse(d, "inflatedRadius", 40)
                inflatedHeight == OrElse(d, "inflatedHeight", 100)
            IN  IF inflatedRadius <= 0 \/ inflatedHeight <= 0 THEN Threw
                ELSE Value(MulPi(inflatedRadius * inflatedRadius * inflatedHeight))
      [] d.shape = "modular" ->
            LET length == OrElse(d, "length", 100)
                width == OrElse(d, "width", 80)
                modularHeight == OrElse(d, "height", 60)
            IN  IF length <= 0 \/ width <= 0 \/ modularHeight <= 0 THEN Threw
                ELSE Value(length * width * modularHeight)
      [] OTHER -> Threw

CalculateSurfaceArea(d) ==
    CASE d.shape = "cylinder" ->
            IF ~Truthy(d, "radius") \/ ~Truthy(d, "height") THEN Threw
            ELSE Value(2 * MulPi(d.f["radius"] * (d.f["radius"] + d.f["height"])))
      [] d.shape = "sphere" ->
            IF ~Truthy(d, "sphereRadius") THEN Threw
            ELSE Value(4 * MulPi(d.f["sphereRadius"] * d.f["sphereRadius"]))
      [] d.shape = "torus" ->
            IF ~Truthy(d, "majorRadius") \/ ~Truthy(d, "minorRadius") THEN Threw
            ELSE Value(4 * MulPi(MulPi(d.f["majorRadius"] * d.f["minorRadius"])))
      [] d.shape = "dome" ->
            IF ~Truthy(d, "domeRadius") \/ ~Truthy(d, "domeHeight") THEN Threw
            ELSE LET domeH == d.f["domeHeight"]
                     domeR == d.f["domeRadius"]
                 IN  Value(2 * MulPi(domeR * domeH) + MulPi(2 * domeR * domeH - domeH * domeH))
      [] d.shape = "inflatable" ->
            IF ~Truthy(d, "inflatedRadius") \/ ~Truthy(d, "inflatedHeight") THEN Threw
            ELSE Value(2 * MulPi(d.f["inflatedRadius"] * (d.f["inflatedRadius"] + d.f["inflatedHeight"])))
      [] d.shape = "modular" ->
            IF ~Truthy(d, "length") \/ ~Truthy(d, "width") \/ ~Truthy(d, "height") THEN Threw
            ELSE LET l == d.f["length"]
                     w == d.f["width"]
                     hm == d.f["height"]
                 IN  Value(2 * (l * w + l * hm + w * hm))
      [] OTHER -> Threw

RECURSIVE CubeRootFrom(_, _)
\* Math.pow(x, 1 / 3) for x >= 0, to the whole unit below
CubeRootFrom(x, r) == IF (r + 1) * (r + 1) * (r + 1) > x THEN r ELSE CubeRootFrom(x, r + 1)

CubeRoot(x) == CubeRootFrom(x, 0)

Dimensions(shape, pairs) ==
    [shape |-> shape,
     f |-> [k \in {pairs[i][1] : i \in 1..Len(pairs)} |->
                (CHOOSE q \in {pairs[i] : i \in 1..Len(pairs)} : q[1] = k)[2]]]

\* variant: a shape without a formula is given the cylinder's dimensions
GenerateRecommendedDimensionsWithFallback(shape, targetVolume, aspectRatio) ==
    LET cylinderRadius == CubeRoot((targetVolume * PiDen) \div (2 * PiNum * aspectRatio))
        sphereRadius == CubeRoot((3 * targetVolume * PiDen) \div (4 * PiNum))
        sideLength == CubeRoot(targetVolume)
    IN  CASE shape = "sphere" -> Value(Dimensions(shape, << <<"sphereRadius", sphereRadius>> >>))
          [] shape = "modular" ->
                Value(Dimensions(shape, << <<"length", sideLength>>, <<"width", sideLength>>,
                                           <<"height", sideLength>> >>))
          [] OTHER ->
                Value(Dimensions("cylinder", << <<"radius", cylinderRadius>>,
                                                <<"height", aspectRatio * 2 * cylinderRadius>> >>))

\* lengths in dm and targetVolume in litres: r^3 = V / (2 pi a) holds in both unit systems
GenerateRecommendedDimensions(shape, targetVolume, aspectRatio) ==
    LET cylinderRadius == CubeRoot((targetVolume * PiDen) \div (2 * PiNum * aspectRatio))
        sphereRadius == CubeRoot((3 * targetVolume * PiDen) \div (4 * PiNum))
        sideLength == CubeRoot(targetVolume)
    IN  CASE shape = "cylinder" ->
                Value(Dimensions(shape, << <<"radius", cylinderRadius>>,
                                           <<"height", aspectRatio * 2 * cylinderRadius>> >>))
          [] shape = "sphere" -> Value(Dimensions(shape, << <<"sphereRadius", sphereRadius>> >>))
          [] shape = "modular" ->
                Value(Dimensions(shape, << <<"length", sideLength>>, <<"width", sideLength>>,
                                           <<"height", sideLength>> >>))
          [] OTHER -> Threw

GetMaxDiameter(d, fairingDiameter) ==
    CASE d.shape \in {"cylinder", "inflatable"} ->
            Min2(IF Truthy(d, "radius") THEN d.f["radius"] * 2 ELSE fairingDiameter, fairingDiameter)
      [] d.shape = "sphere" ->
            Min2(IF Truthy(d, "sphereRadius") THEN d.f["sphereRadius"] * 2 ELSE fairingDiameter, fairingDiameter)
      [] d.shape = "torus" ->
            Min2(IF Truthy(d, "majorRadius") THEN d.f["majorRadius"] * 2 ELSE fairingDiameter, fairingDiameter)
      [] d.shape = "dome" ->
            Min2(IF Truthy(d, "domeRadius") THEN d.f["domeRadius"] * 2 ELSE fairingDiameter, fairingDiameter)
      [] d.shape = "modular" ->
            Min2(Max2(OrElse(d, "length", 0), OrElse(d, "width", 0)), fairingDiameter)
      [] OTHER -> fairingDiameter

\* wallThickness 0.1 m, materialDensity 2700 kg/m3: 270 kg per m2 = 27/10 kg per dm2
StructuralMassOf(surfaceArea) ==
    IF ~surfaceArea.ok THEN Threw ELSE Value((surfaceArea.v * 27) \div 10)

CalculateStructuralMass(d) == StructuralMassOf(CalculateSurfaceArea(d))

GetEffectiveHeight(d) ==
    CASE d.shape \in {"cylinder", "inflatable"} ->
            IF Truthy(d, "height") THEN d.f["height"] ELSE OrElse(d, "inflatedHeight", 0)
      [] d.shape = "sphere" -> IF Truthy(d, "sphereRadius") THEN d.f["sphereRadius"] * 2 ELSE 0
      [] d.shape = "torus" -> IF Truthy(d, "minorRadius") THEN d.f["minorRadius"] * 2 ELSE 0
      [] d.shape = "dome" -> OrElse(d, "domeHeight", 0)
      [] d.shape = "modular" -> OrElse(d, "height", 0)
      [] OTHER -> 0

\* the three ratios actual/limit are kept as (actual, limit) pairs: r > 1.0 iff actual > limit;
\* the utilisation factors are min(r, 1.0) in thousandths
Utilization(actual, limit) == Min2((actual * 1000) \div limit, 1000)

LaunchViolations(structuralMass, maxDiameter, habitatHeight, fairingDiameter, fairingHeight, maxMass) ==
    (IF maxDiameter > fairingDiameter
        THEN << <<"Habitat diameter exceeds fairing diameter", maxDiameter, fairingDiameter>> >> ELSE <<>>)
    \o (IF habitatHeight > fairingHeight
        THEN << <<"Habitat height exceeds fairing height", habitatHeight, fairingHeight>> >> ELSE <<>>)
    \o (IF structuralMass > maxMass
        THEN << <<"Structural mass exceeds launch capacity", structuralMass, maxMass>> >> ELSE <<>>)

\* checkLaunchConstraints once structuralMass, maxDiameter and habitatHeight are computed
LaunchConstraintsOf(structuralMass, maxDiameter, habitatHeight, fairingDiameter, fairingHeight, maxMass) ==
    IF ~structuralMass.ok THEN [ok |-> FALSE]
    ELSE [ok |-> TRUE,
          fits |-> LaunchViolations(structuralMass.v, maxDiameter, habitatHeight,
                                    fairingDiameter, fairingHeight, maxMass) = <<>>,
          violations |-> LaunchViolations(structuralMass.v, maxDiameter, habitatHeight,
                                          fairingDiameter, fairingHeight, maxMass),
          utilizationFactors |->
              [diameter |-> Utilization(maxDiameter, fairingDiameter),
               height |-> Utilization(habitatHeight, fairingHeight),
               mass |-> Utilization(structuralMass.v, maxMass)]]

\* [ok |-> FALSE] when calculateStructuralMass throws
CheckLaunchConstraints(d, fairingDiameter, fairingHeight, maxMass) ==
    LaunchConstraintsOf(CalculateStructuralMass(d), GetMaxDiameter(d, fairingDiameter),
                        GetEffectiveHeight(d), fairingDiameter, fairingHeight, maxMass)

-----------------------------------------------------------------------------
(* HabitatValidator *)

\* a ValidationResult; message is the template text followed by the interpolated values
Finding(category, severity, message, affectedModules, complianceStandard) ==
    [category |-> category, severity |-> severity, message |-> message,
     affectedModules |-> affectedModules, complianceStandard |-> complianceStandard]

\* variant: the thresholds belong to the longer mission
DurationMultiplierInclusive(duration) ==
    IF duration >= 1000 THEN 20
    ELSE IF duration >= 500 THEN 15
    ELSE IF duration >= 180 THEN 12
    ELSE 10

\* durationMultiplier in tenths
DurationMultiplier(duration) ==
    IF duration > 1000 THEN 20
    ELSE IF duration > 500 THEN 15
    ELSE IF duration > 180 THEN 12
    ELSE 10

CalculateRequiredNHV(crewSize, duration) ==
    [minimum |-> (crewSize * NHV_PER_CREW_MINIMUM * DurationMultiplier(duration)) \div 10,
     optimal |-> (crewSize * NHV_PER_CREW_OPTIMAL * DurationMultiplier(duration)) \div 10]

RECURSIVE VolumeByTypeFrom(_, _, _)
VolumeByTypeFrom(modules, type, i) ==
    IF i > Len(modules) THEN 0
    ELSE (IF modules[i].type = type THEN modules[i].volume ELSE 0) + VolumeByTypeFrom(modules, type, i + 1)

GetVolumeByType(modules, type) == VolumeByTypeFrom(modules, type, 1)

RECURSIVE DurationCategoryLast(_, _)
\* variant: the last range that contains the duration, and SHORT_TERM when none does
DurationCategoryLast(duration, i) ==
    IF i > Len(MISSION_DURATIONS) THEN "SHORT_TERM"
    ELSE LET later == DurationCategoryLast(duration, i + 1)
         IN  IF later = "SHORT_TERM" /\ duration >= MISSION_DURATIONS[i].min
                                     /\ duration <= MISSION_DURATIONS[i].max
             THEN MISSION_DURATIONS[i].category
             ELSE later

RECURSIVE DurationCategoryFrom(_, _)
\* for (const [category, range] of Object.entries(MISSION_DURATIONS)), from entry i on
DurationCategoryFrom(duration, i) ==
    IF i > Len(MISSION_DURATIONS) THEN "EXTENDED"
    ELSE IF duration >= MISSION_DURATIONS[i].min /\ duration <= MISSION_DURATIONS[i].max
         THEN MISSION_DURATIONS[i].category
         ELSE DurationCategoryFrom(duration, i + 1)

GetMissionDurationCategory(duration) == DurationCategoryFrom(duration, 1)

ValidateFunctionalAreaVolumes(design) ==
    LET crewSize == design.missionParameters.crewSize
        requiredSleepVolume == crewSize * SLEEP_VOLUME_PER_CREW
        requiredWorkVolume == crewSize * WORK_VOLUME_PER_CREW
        actualSleepVolume == GetVolumeByType(design.modules, "habitation")
        actualWorkVolume == GetVolumeByType(design.modules, "laboratory")
                            + GetVolumeByType(design.modules, "command")
    IN  (IF actualSleepVolume < requiredSleepVolume
            THEN << Finding("volume", "warning",
                            <<"Insufficient sleep area", ToFixed1(actualSleepVolume), ToFixed1(requiredSleepVolume)>>,
                            <<>>, "Crew Quarters Requirements") >>
            ELSE <<>>)
        \o (IF actualWorkVolume < requiredWorkVolume
            THEN << Finding("volume", "warning",
                            <<"Insufficient work space", ToFixed1(actualWorkVolume), ToFixed1(requiredWorkVolume)>>,
                            <<>>, "Workspace Requirements") >>
            ELSE <<>>)

\* variant: the optimal volume is tested whether or not the minimum is met
ValidateVolumeRequirementsBoth(design) ==
    LET crewSize == design.missionParameters.crewSize
        duration == design.missionParameters.duration
        requiredNHV == CalculateRequiredNHV(crewSize, duration)
        actualNHV == design.netHabitableVolume
    IN  (IF actualNHV < requiredNHV.minimum
            THEN << Finding("volume", "error",
                            <<"Net Habitable Volume is below NASA minimum requirement",
                              ToFixed1(actualNHV), ToFixed1(requiredNHV.minimum)>>,
                            <<>>, "NASA-STD-3001-V1") >>
            ELSE <<>>)
        \o (IF actualNHV < requiredNHV.optimal
            THEN << Finding("volume", "warning",
                            <<"Net Habitable Volume is below optimal requirement", ToFixed1(requiredNHV.optimal)>>,
                            <<>>, "NASA-STD-3001-V1") >>
            ELSE <<>>)
        \o (IF actualNHV < NHV_PER_CREW_MINIMUM * crewSize
            THEN << Finding("volume", "error",
                            <<"Volume per crew member is below minimum", ToFixed1(actualNHV \div crewSize)>>,
                            <<>>, "NASA-STD-3001-V1") >>
            ELSE <<>>)
        \o ValidateFunctionalAreaVolumes(design)

ValidateVolumeRequirements(design) ==
    LET crewSize == design.missionParameters.crewSize
        duration == design.missionParameters.duration
        requiredNHV == CalculateRequiredNHV(crewSize, duration)
        actualNHV == design.netHabitableVolume
    IN  (IF actualNHV < requiredNHV.minimum
            THEN << Finding("volume", "error",
                            <<"Net Habitable Volume is below NASA minimum requirement",
                              ToFixed1(actualNHV), ToFixed1(requiredNHV.minimum)>>,
                            <<>>, "NASA-STD-3001-V1") >>
         ELSE IF actualNHV < requiredNHV.optimal
            THEN << Finding("volume", "warning",
                            <<"Net Habitable Volume is below optimal requirement", ToFixed1(requiredNHV.optimal)>>,
                            <<>>, "NASA-STD-3001-V1") >>
         ELSE <<>>)
        \* volumePerCrew = actualNHV / crewSize < 25, for crewSize > 0
        \o (IF actualNHV < NHV_PER_CREW_MINIMUM * crewSize
            THEN << Finding("volume", "error",
                            <<"Volume per crew member is below minimum", ToFixed1(actualNHV \div crewSize)>>,
                            <<>>, "NASA-STD-3001-V1") >>
            ELSE <<>>)
        \o ValidateFunctionalAreaVolumes(design)

\* variant: an unknown launch vehicle is passed over without a finding
ValidateLaunchConstraintsSilent(design) ==
    LET key == ToUpperCase(design.missionParameters.launchVehicle)
    IN  IF key \notin DOMAIN PAYLOAD_FAIRINGS
        THEN [ok |-> TRUE, results |-> <<>>]
        ELSE
            LET fairing == PAYLOAD_FAIRINGS[key]
                constraints == CheckLaunchConstraints(design.dimensions, fairing.diameter,
                                                      fairing.height, fairing.mass_limit)
            IN  IF ~constraints.ok THEN [ok |-> FALSE, results |-> <<>>]
                ELSE [ok |-> TRUE,
                      results |-> [i \in 1..Len(constraints.violations) |->
                                      Finding("mass", "error", constraints.violations[i], <<>>, fairing.label)]]

\* returns [ok |-> FALSE] when the geometry engine throws
\* avgUtilization < 0.6, on the sum of the three factors in thousandths
UtilizationFinding(avgUtilization3) ==
    IF avgUtilization3 < 1800
    THEN << Finding("volume", "info", <<"Low fairing utilization", avgUtilization3 \div 3>>,
                    <<>>, "Launch Efficiency Guidelines") >>
    ELSE <<>>

\* variant: utilization is looked at only when the habitat fits
ConstraintFindingsWhenFits(constraints, fairing) ==
    IF ~constraints.ok THEN [ok |-> FALSE, results |-> <<>>]
    ELSE [ok |-> TRUE,
          results |->
            IF ~constraints.fits
            THEN [i \in 1..Len(constraints.violations) |->
                    Finding("mass", "error", constraints.violations[i], <<>>, fairing.label)]
            ELSE UtilizationFinding(constraints.utilizationFactors.diameter
                                    + constraints.utilizationFactors.height
                                    + constraints.utilizationFactors.mass)]

\* the findings drawn from the result of checkLaunchConstraints
ConstraintFindings(constraints, fairing) ==
    IF ~constraints.ok THEN [ok |-> FALSE, results |-> <<>>]
    ELSE [ok |-> TRUE,
          results |->
            (IF ~constraints.fits
                THEN [i \in 1..Len(constraints.violations) |->
                        Finding("mass", "error", constraints.violations[i], <<>>, fairing.label)]
                ELSE <<>>)
            \o UtilizationFinding(constraints.utilizationFactors.diameter
                                  + constraints.utilizationFactors.height
                                  + constraints.utilizationFactors.mass)]

LaunchFindings(dimensions, launchVehicle, key) ==
    IF key \notin DOMAIN PAYLOAD_FAIRINGS
    THEN [ok |-> TRUE,
          results |-> << Finding("mass", "error", <<"Unknown launch vehicle: ", launchVehicle>>,
                                 <<>>, "Launch Vehicle Specifications") >>]
    ELSE ConstraintFindings(
            CheckLaunchConstraints(dimensions, PAYLOAD_FAIRINGS[key].diameter,
                                   PAYLOAD_FAIRINGS[key].height, PAYLOAD_FAIRINGS[key].mass_limit),
            PAYLOAD_FAIRINGS[key])

ValidateLaunchConstraints(design) ==
    LaunchFindings(design.dimensions, design.missionParameters.launchVehicle,
                   ToUpperCase(design.missionParameters.launchVehicle))

HasModuleOfType(modules, type) == \E i \in 1..Len(modules) : modules[i].type = type

ValidateCrewRequirements(design) ==
    LET mission == design.missionParameters
        durationCategory == GetMissionDurationCategory(mission.duration)
    IN  (IF mission.crewSize < MIN_CREW
            THEN << Finding("safety", "error", <<"Crew size is below minimum safe crew", mission.crewSize>>,
                            <<>>, "NASA-STD-3001-V2") >>
            ELSE <<>>)
        \o (IF mission.crewSize > MAX_CREW_LARGE
            THEN << Finding("volume", "warning", <<"Large crew size may require multiple habitat modules", mission.crewSize>>,
                            <<>>, "Crew Operations Guidelines") >>
            ELSE <<>>)
        \o (IF durationCategory \in {"EXTENDED", "PERMANENT"} /\ ~HasModuleOfType(design.modules, "greenhouse")
            THEN << Finding("volume", "warning", <<"Long-duration missions should include food production capability">>,
                            <<>>, "Long-Duration Mission Requirements") >>
            ELSE <<>>)

IsEssential(entry) == entry.essential

EssentialModules == SelectSeq(MODULE_TYPES, IsEssential)

RECURSIVE MissingEssentialFirstOnly(_, _)
\* variant: the check stops at the first essential type that is missing
MissingEssentialFirstOnly(modules, i) ==
    IF i > Len(EssentialModules) THEN <<>>
    ELSE LET moduleType == ToLowerCase(EssentialModules[i].key)
         IN  IF ~HasModuleOfType(modules, moduleType)
             THEN << Finding("safety", "error", <<"Missing essential module: ", moduleType>>,
                             <<>>, "NASA-STD-3001-V2") >>
             ELSE MissingEssentialFirstOnly(modules, i + 1)

RECURSIVE MissingEssentialFrom(_, _)
\* Object.entries(MODULE_TYPES).filter(essential).forEach: one error per type not found
MissingEssentialFrom(modules, i) ==
    IF i > Len(EssentialModules) THEN <<>>
    ELSE LET moduleType == ToLowerCase(EssentialModules[i].key)
         IN  (IF ~HasModuleOfType(modules, moduleType)
                 THEN << Finding("safety", "error", <<"Missing essential module: ", moduleType>>,
                                 <<>>, "NASA-STD-3001-V2") >>
                 ELSE <<>>)
             \o MissingEssentialFrom(modules, i + 1)

IsAirlock(m) == m.type = "airlock"

RECURSIVE CrewCapacityFrom(_, _)
CrewCapacityFrom(airlocks, i) ==
    IF i > Len(airlocks) THEN 0 ELSE airlocks[i].crewCapacity + CrewCapacityFrom(airlocks, i + 1)

\* variant: every module's crew capacity counts towards evacuation, and the flag is not read
ValidateSafetyRequirementsAllModules(design) ==
    LET airlocks == SelectSeq(design.modules, IsAirlock)
        totalEvacCapacity == CrewCapacityFrom(design.modules, 1)
    IN  MissingEssentialFrom(design.modules, 1)
        \o (IF Len(airlocks) < 2 /\ design.missionParameters.duration > 30
            THEN << Finding("safety", "warning", <<"Long-duration missions should have redundant airlocks">>,
                            <<>>, "Emergency Egress Requirements") >>
            ELSE <<>>)
        \o (IF totalEvacCapacity < design.missionParameters.crewSize
            THEN << Finding("safety", "error", <<"Insufficient emergency evacuation capacity">>,
                            <<>>, "Emergency Evacuation Procedures") >>
            ELSE <<>>)

ValidateSafetyRequirements(design) ==
    LET airlocks == SelectSeq(design.modules, IsAirlock)
        totalEvacCapacity == CrewCapacityFrom(airlocks, 1)
    IN  MissingEssentialFrom(design.modules, 1)
        \o (IF Len(airlocks) < 2 /\ design.missionParameters.duration > 30
            THEN << Finding("safety", "warning", <<"Long-duration missions should have redundant airlocks">>,
                            <<>>, "Emergency Egress Requirements") >>
            ELSE <<>>)
        \o (IF design.missionParameters.emergencyEvacuation
               /\ totalEvacCapacity < design.missionParameters.crewSize
            THEN << Finding("safety", "error", <<"Insufficient emergency evacuation capacity">>,
                            <<>>, "Emergency Evacuation Procedures") >>
            ELSE <<>>)

\* variant: only a connection from a to b counts
HasConnectionDirected(connections, a, b) ==
    \E i \in 1..Len(connections) :
        connections[i].fromModuleId = a /\ connections[i].toModuleId = b

\* design.connections.some(conn => conn joins a and b in either direction)
HasConnection(connections, a, b) ==
    \E i \in 1..Len(connections) :
        \/ (connections[i].fromModuleId = a /\ connections[i].toModuleId = b)
        \/ (connections[i].toModuleId = a /\ connections[i].fromModuleId = b)

RECURSIVE FindModuleFrom(_, _, _)
\* design.modules.find(m => m.id === id): index of the first match, 0 when none
FindModuleFrom(modules, id, i) ==
    IF i > Len(modules) THEN 0
    ELSE IF modules[i].id = id THEN i
    ELSE FindModuleFrom(modules, id, i + 1)

\* requiredModule?.name || requiredId
NameOrId(modules, id) ==
    LET i == FindModuleFrom(modules, id, 1)
    IN  IF i = 0 THEN id ELSE modules[i].name

RECURSIVE RequirementFindings(_, _, _)
RequirementFindings(design, module, j) ==
    IF j > Len(module.adjacencyRequirements) THEN <<>>
    ELSE LET requiredId == module.adjacencyRequirements[j]
         IN  (IF ~HasConnection(design.connections, module.id, requiredId)
                 THEN << Finding("adjacency", "warning",
                                 <<"should be adjacent to", module.name, NameOrId(design.modules, requiredId)>>,
                                 <<module.id, requiredId>>, "Habitat Layout Guidelines") >>
                 ELSE <<>>)
             \o RequirementFindings(design, module, j + 1)

RECURSIVE RestrictionFindingsPerConnection(_, _, _)
\* variant: one error for every connection that joins the restricted pair
RestrictionFindingsPerConnection(design, module, j) ==
    IF j > Len(module.adjacencyRestrictions) THEN <<>>
    ELSE LET restrictedId == module.adjacencyRestrictions[j]
             Joins(conn) == \/ (conn.fromModuleId = module.id /\ conn.toModuleId = restrictedId)
                            \/ (conn.toModuleId = module.id /\ conn.fromModuleId = restrictedId)
             joining == SelectSeq(design.connections, Joins)
         IN  [k \in 1..Len(joining) |->
                Finding("adjacency", "error",
                        <<"should not be adjacent to", module.name, NameOrId(design.modules, restrictedId)>>,
                        <<module.id, restrictedId>>, "Safety Separation Requirements")]
             \o RestrictionFindingsPerConnection(design, module, j + 1)

RECURSIVE RestrictionFindings(_, _, _)
\* module.adjacencyRestrictions.forEach: one error where some connection joins the pair
RestrictionFindings(design, module, j) ==
    IF j > Len(module.adjacencyRestrictions) THEN <<>>
    ELSE LET restrictedId == module.adjacencyRestrictions[j]
         IN  (IF HasConnection(design.connections, module.id, restrictedId)
                 THEN << Finding("adjacency", "error",
                                 <<"should not be adjacent to", module.name, NameOrId(design.modules, restrictedId)>>,
                                 <<module.id, restrictedId>>, "Safety Separation Requirements") >>
                 ELSE <<>>)
             \o RestrictionFindings(design, module, j + 1)

RECURSIVE ModuleConfigFrom(_, _)
\* MODULE_TYPES[key]: index of the entry, 0 when the key is not in the table
ModuleConfigFrom(key, i) ==
    IF i > Len(MODULE_TYPES) THEN 0
    ELSE IF MODULE_TYPES[i].key = key THEN i
    ELSE ModuleConfigFrom(key, i + 1)

ModuleVolumeFindings(module) ==
    LET c == ModuleConfigFrom(ToUpperCase(module.type), 1)
    IN  IF c # 0 /\ module.volume < MODULE_TYPES[c].min_volume
        THEN << Finding("volume", "warning",
                        <<"volume is below recommended minimum", module.name,
                          ToFixed1(module.volume), MODULE_TYPES[c].min_volume>>,
                        <<module.id>>, "Module Design Standards") >>
        ELSE <<>>

RECURSIVE ModuleRequirementsFrom(_, _)
ModuleRequirementsFrom(design, i) ==
    IF i > Len(design.modules) THEN <<>>
    ELSE RequirementFindings(design, design.modules[i], 1)
         \o RestrictionFindings(design, design.modules[i], 1)
         \o ModuleVolumeFindings(design.modules[i])
         \o ModuleRequirementsFrom(design, i + 1)

ValidateModuleRequirements(design) == ModuleRequirementsFrom(design, 1)

RECURSIVE PowerFrom(_, _)
PowerFrom(modules, i) ==
    IF i > Len(modules) THEN 0 ELSE modules[i].powerRequirement + PowerFrom(modules, i + 1)

ValidateLifeSupportRequirements(design) ==
    LET totalPowerReq == PowerFrom(design.modules, 1)
        crewSize == design.missionParameters.crewSize
        habitatVolume == design.totalVolume
    IN  \* totalPowerReq kW > totalVolume m3 * 2
        (IF totalPowerReq * 500 > design.totalVolume
            THEN << Finding("power", "warning", <<"Power requirement may exceed capacity", totalPowerReq>>,
                            <<>>, "Power System Requirements") >>
            ELSE <<>>)
        \* airChangeRate = crewSize * 0.5 * 60 / habitatVolume < 0.5; x / 0 is Infinity or NaN
        \o (IF habitatVolume < 0 \/ (habitatVolume > 0 /\ crewSize * 60000 < habitatVolume)
            THEN << Finding("safety", "warning", <<"Low air circulation rate for crew size">>,
                            <<>>, "Air Quality Standards") >>
            ELSE <<>>)

\* HabitatValidator.validateDesign: [ok |-> FALSE] when it throws
\* the six result lists in the order validateDesign pushes them
\* variant: the safety findings are pushed before the crew findings
AllFindingsSafetyFirst(design, launch) ==
    IF ~launch.ok THEN [ok |-> FALSE, results |-> <<>>]
    ELSE [ok |-> TRUE,
          results |-> ValidateVolumeRequirements(design)
                      \o launch.results
                      \o ValidateSafetyRequirements(design)
                      \o ValidateCrewRequirements(design)
                      \o ValidateModuleRequirements(design)
                      \o ValidateLifeSupportRequirements(design)]

AllFindings(design, launch) ==
    IF ~launch.ok THEN [ok |-> FALSE, results |-> <<>>]
    ELSE [ok |-> TRUE,
          results |-> ValidateVolumeRequirements(design)
                      \o launch.results
                      \o ValidateCrewRequirements(design)
                      \o ValidateSafetyRequirements(design)
                      \o ValidateModuleRequirements(design)
                      \o ValidateLifeSupportRequirements(design)]

ValidateDesign(design) == AllFindings(design, ValidateLaunchConstraints(design))

RECURSIVE Deductions(_, _)
Deductions(validationResultsArg, i) ==
    IF i > Len(validationResultsArg) THEN 0
    ELSE (CASE validationResultsArg[i].severity = "error" -> 15
            [] validationResultsArg[i].severity = "warning" -> 5
            [] validationResultsArg[i].severity = "info" -> 1
            [] OTHER -> 0)
         + Deductions(validationResultsArg, i + 1)

\* variant: the score is not clamped at 0
CalculateComplianceScoreUnclamped(validationResultsArg) ==
    100 - Deductions(validationResultsArg, 1)

CalculateComplianceScore(validationResultsArg) ==
    Max2(0, 100 - Deductions(validationResultsArg, 1))

-----------------------------------------------------------------------------
(* src/src/stores/habitatStore.ts *)

\* { ...a, ...b } on records and on field maps
Merge(a, b) == [k \in (DOMAIN a) \cup (DOMAIN b) |-> IF k \in DOMAIN b THEN b[k] ELSE a[k]]

NoShape == ""

CreateDefaultDesign ==
    [dimensions |-> [shape |-> "cylinder", f |-> [k \in {"radius", "height"} |-> IF k = "radius" THEN 40 ELSE 120]],
     missionParameters |-> [crewSize |-> 4, duration |-> 180, launchVehicle |-> "sls_block_1",
                            emergencyEvacuation |-> TRUE],
     modules |-> <<>>,
     connections |-> <<>>,
     totalVolume |-> 0,
     pressurizedVolume |-> 0,
     netHabitableVolume |-> 0,
     totalMass |-> 0,
     powerRequirement |-> 0,
     validationResults |-> <<>>,
     complianceScore |-> 0]

RECURSIVE ModuleVolumeFrom(_, _)
ModuleVolumeFrom(modules, i) ==
    IF i > Len(modules) THEN 0 ELSE modules[i].volume + ModuleVolumeFrom(modules, i + 1)

RECURSIVE ModuleMassFrom(_, _)
ModuleMassFrom(modules, i) ==
    IF i > Len(modules) THEN 0 ELSE modules[i].mass + ModuleMassFrom(modules, i + 1)

\* [ok |-> FALSE] when the geometry engine throws
MetricsFrom(modules, totalVolume, structuralMass) ==
    IF ~totalVolume.ok \/ ~structuralMass.ok THEN [ok |-> FALSE]
    ELSE [ok |-> TRUE,
          metrics |->
            [totalVolume |-> totalVolume.v,
             pressurizedVolume |-> totalVolume.v,
             netHabitableVolume |-> Max2(0, totalVolume.v - (ModuleVolumeFrom(modules, 1) * 3) \div 10),
             totalMass |-> ModuleMassFrom(modules, 1) + structuralMass.v,
             powerRequirement |-> PowerFrom(modules, 1)]]

CalculateDesignMetrics(design) ==
    MetricsFrom(design.modules, CalculateVolume(design.dimensions),
                CalculateStructuralMass(design.dimensions))

\* The part of the store the actions read and write
Store(design, selected, results, score) ==
    [currentDesign |-> design, selectedModuleId |-> selected,
     validationResults |-> results, complianceScore |-> score]

\* A call in progress: the store state, whether the call has thrown, and the states
\* the subscription on state.currentDesign (lines 501-508) has been handed so far
Begin(s) == [state |-> s, threw |-> FALSE, pubs |-> <<>>]

Throw(run) == [run EXCEPT !.threw = TRUE]

\* set(partial) with a new currentDesign object: zustand merges the partial into the state
\* and calls the listeners before set returns
SetState(run, partial) ==
    LET next == Merge(run.state, partial)
    IN  [run EXCEPT !.state = next,
                    !.pubs = IF "currentDesign" \in DOMAIN partial THEN Append(@, next) ELSE @]

\* variant: the findings and the score are stored in the store but not in the design
StoreValidateDesignStoreOnly(run) ==
    IF run.threw THEN run
    ELSE LET v == ValidateDesign(run.state.currentDesign)
         IN  IF ~v.ok THEN Throw(run)
             ELSE SetState(run, [currentDesign |-> run.state.currentDesign,
                                 validationResults |-> v.results,
                                 complianceScore |-> CalculateComplianceScore(v.results)])

\* variant: the findings of a run are pushed onto the list the design already holds
StoreValidateDesignAccumulating(run) ==
    IF run.threw THEN run
    ELSE LET design == run.state.currentDesign
             v == ValidateDesign(design)
         IN  IF ~v.ok THEN Throw(run)
             ELSE LET results == design.validationResults \o v.results
                      score == CalculateComplianceScore(results)
                  IN  SetState(run, [currentDesign |-> [design EXCEPT !.validationResults = results,
                                                                      !.complianceScore = score],
                                     validationResults |-> results,
                                     complianceScore |-> score])

\* set({currentDesign: {...currentDesign, validationResults, complianceScore}, validationResults, complianceScore})
SetFindings(run, results, score) ==
    SetState(run, [currentDesign |-> [run.state.currentDesign EXCEPT !.validationResults = results,
                                                                   !.complianceScore = score],
                   validationResults |-> results,
                   complianceScore |-> score])

\* v is what HabitatValidator.validateDesign came to
StoreFindings(run, v) ==
    IF ~v.ok THEN Throw(run)
    ELSE SetFindings(run, v.results, CalculateComplianceScore(v.results))

StoreValidateDesign(run) ==
    IF run.threw THEN run
    ELSE StoreFindings(run, ValidateDesign(run.state.currentDesign))

\* the tail the actions that recompute metrics share: m is what calculateDesignMetrics came
\* to for the updated design; when it threw nothing is set, else the design is set with its
\* metrics, together with the other fields of the partial state, and validated
\* variant: the changed design is stored before its metrics are computed
SetRecomputedEarly(s, updated, m, others) ==
    IF ~m.ok THEN Throw(SetState(Begin(s), Merge([currentDesign |-> updated], others)))
    ELSE StoreValidateDesign(
            SetState(Begin(s), Merge([currentDesign |-> Merge(updated, m.metrics)], others)))

SetRecomputed(s, updated, m, others) ==
    IF ~m.ok THEN Throw(Begin(s))
    ELSE StoreValidateDesign(
            SetState(Begin(s), Merge([currentDesign |-> Merge(updated, m.metrics)], others)))

Recompute(s, updated, others) == SetRecomputed(s, updated, CalculateDesignMetrics(updated), others)

NoOthers == [k \in {} |-> 0]

\* variant: the default design is stored with the metrics createDefaultDesign gives it
CreateNewDesignWithoutMetrics(s) ==
    StoreValidateDesign(
        SetState(Begin(s), [currentDesign |-> CreateDefaultDesign, selectedModuleId |-> 0,
                            validationResults |-> <<>>, complianceScore |-> 0]))

CreateNewDesign(s) ==
    Recompute(s, CreateDefaultDesign,
              [selectedModuleId |-> 0, validationResults |-> <<>>, complianceScore |-> 0])

LoadDesign(s, design) ==
    StoreValidateDesign(
        SetState(Begin(s), [currentDesign |-> design,
                            selectedModuleId |-> 0,
                            validationResults |-> design.validationResults,
                            complianceScore |-> design.complianceScore]))

\* the defaults filled in when the shape changes: if (!newDimensions.k) newDimensions.k = dflt
ShapeDefaults(shape) ==
    CASE shape = "cylinder"   -> << <<"radius", 40>>, <<"height", 120>> >>
      [] shape = "sphere"     -> << <<"sphereRadius", 50>> >>
      [] shape = "torus"      -> << <<"majorRadius", 80>>, <<"minorRadius", 30>> >>
      [] shape = "dome"       -> << <<"domeRadius", 60>>, <<"domeHeight", 40>> >>
      [] shape = "inflatable" -> << <<"inflatedRadius", 40>>, <<"inflatedHeight", 100>> >>
      [] shape = "modular"    -> << <<"length", 100>>, <<"width", 80>>, <<"height", 60>> >>
      [] OTHER                -> <<>>

RECURSIVE FillDefaults(_, _, _)
FillDefaults(d, defaults, i) ==
    IF i > Len(defaults) THEN d
    ELSE FillDefaults(
            IF Truthy(d, defaults[i][1]) THEN d
            ELSE [d EXCEPT !.f = Merge(@, [k \in {defaults[i][1]} |-> defaults[i][2]])],
            defaults, i + 1)

\* dimensions is a Partial: shape NoShape when the update does not name a shape
NewDimensions(current, dimensions) ==
    LET merged == [shape |-> IF dimensions.shape # NoShape THEN dimensions.shape ELSE current.shape,
                   f |-> Merge(current.f, dimensions.f)]
    IN  IF dimensions.shape # NoShape /\ dimensions.shape # current.shape
        THEN FillDefaults(merged, ShapeDefaults(dimensions.shape), 1)
        ELSE merged

UpdateHabitatDimensions(s, dimensions) ==
    Recompute(s, [s.currentDesign EXCEPT !.dimensions = NewDimensions(@, dimensions)], NoOthers)

UpdateMissionParameters(s, params) ==
    StoreValidateDesign(
        SetState(Begin(s), [currentDesign |-> [s.currentDesign EXCEPT !.missionParameters = Merge(@, params)]]))

AddModule(s, moduleData, id) ==
    Recompute(s, [s.currentDesign EXCEPT !.modules = Append(@, Merge(moduleData, [k \in {"id"} |-> id]))],
              NoOthers)

UpdateModule(s, id, updates) ==
    Recompute(s, [s.currentDesign EXCEPT
                    !.modules = [i \in 1..Len(@) |-> IF @[i].id = id THEN Merge(@[i], updates) ELSE @[i]]],
              NoOthers)

\* variant: the connections of the removed module stay, and the selection is always reset
RemoveModuleOnly(s, id) ==
    LET KeepModule(module) == module.id # id
    IN  Recompute(s, [s.currentDesign EXCEPT !.modules = SelectSeq(@, KeepModule)],
                  [selectedModuleId |-> 0])

RemoveModule(s, id) ==
    LET KeepModule(module) == module.id # id
        KeepConnection(conn) == conn.fromModuleId # id /\ conn.toModuleId # id
    IN  Recompute(s, [s.currentDesign EXCEPT !.modules = SelectSeq(@, KeepModule),
                                             !.connections = SelectSeq(@, KeepConnection)],
                  [selectedModuleId |-> IF s.selectedModuleId = id THEN 0 ELSE s.selectedModuleId])

SelectModule(s, id) == SetState(Begin(s), [selectedModuleId |-> id])

AddConnection(s, fromId, toId, type, id) ==
    LET newConnection == [id |-> id, fromModuleId |-> fromId, toModuleId |-> toId, type |-> type,
                          diameter |-> IF type = "airlock" THEN 12 ELSE 8]
    IN  StoreValidateDesign(
            SetState(Begin(s),
                [currentDesign |-> [s.currentDesign EXCEPT !.connections = Append(@, newConnection)]]))

RemoveConnection(s, connectionId) ==
    LET KeepConnection(conn) == conn.id # connectionId
    IN  StoreValidateDesign(
            SetState(Begin(s),
                [currentDesign |-> [s.currentDesign EXCEPT !.connections = SelectSeq(@, KeepConnection)]]))

ValidateDesignAction(s) == StoreValidateDesign(Begin(s))

-----------------------------------------------------------------------------
(* Inputs of the store actions *)

\* a design with the metrics calculateDesignMetrics gives it
WithMetrics(design) == Merge(design, CalculateDesignMetrics(design).metrics)

\* the design as the store holds it after validating it: what exportDesign writes
Validated(design) == StoreValidateDesign(Begin(Store(design, 0, <<>>, 0))).state.currentDesign

\* SAMPLE_DESIGNS[0], "Luna Base Alpha": 4 crew, cylinder 4 m x 12 m, 603.2 m3, listed at 85 % compliance
SampleDesign0 == [WithMetrics(CreateDefaultDesign) EXCEPT !.complianceScore = 85]

Field(k, v) == [k2 \in {k} |-> v]

DimensionUpdates ==
    { [shape |-> "sphere", f |-> NoFields],
      [shape |-> "custom", f |-> NoFields],
      [shape |-> NoShape, f |-> Field("radius", 0)] }

MissionUpdates == { Field("launchVehicle", "saturn_v") }

ModuleIds(design) == {design.modules[i].id : i \in 1..Len(design.modules)}

ConnectionIds(design) == {design.connections[i].id : i \in 1..Len(design.connections)}

\* designs handed to loadDesign by importDesign / loadFromLocal:
\* the default design as createDefaultDesign builds it (no metrics computed),
ImportedDefault == CreateDefaultDesign

\* a design exported by the application: two modules, the first requires adjacency to the second
ImportedPairModules ==
    << [id |-> 101, type |-> "habitation", name |-> "Crew Quarters", volume |-> 20000, mass |-> 1000,
        powerRequirement |-> 5, crewCapacity |-> 4,
        adjacencyRequirements |-> <<102>>, adjacencyRestrictions |-> <<>>],
       [id |-> 102, type |-> "airlock", name |-> "Airlock", volume |-> 15000, mass |-> 800,
        powerRequirement |-> 3, crewCapacity |-> 0,
        adjacencyRequirements |-> <<>>, adjacencyRestrictions |-> <<>>] >>

\* and a custom-shape design with the same modules and the metrics its file states
ImportedCustom ==
    [CreateDefaultDesign EXCEPT
        !.dimensions = [shape |-> "custom", f |-> [k \in {"length", "width"} |-> IF k = "length" THEN 100 ELSE 80]],
        !.modules = ImportedPairModules,
        !.totalVolume = 480000, !.pressurizedVolume = 480000, !.netHabitableVolume = 480000,
        !.totalMass = 50000, !.complianceScore = 90]

ImportedPair == Validated(WithMetrics([CreateDefaultDesign EXCEPT !.modules = ImportedPairModules]))

LoadableDesigns == {ImportedDefault, ImportedCustom, ImportedPair}

FirstId(design) == IF design.modules = <<>> THEN {} ELSE {design.modules[1].id}

\* adjacency lists naming the first module of the design
AdjLists(design) == {<<>>} \cup {<<b>> : b \in FirstId(design)}

\* a module as the design wizard adds it (part_006), with an adjacency-requirements list
ModuleInputs(design) ==
    { [type |-> "airlock", name |-> "Airlock", volume |-> 15000, mass |-> 800,
       powerRequirement |-> 3, crewCapacity |-> 0,
       adjacencyRequirements |-> req, adjacencyRestrictions |-> <<>>] : req \in AdjLists(design) }

ModuleUpdates(design, id) ==
    { Field("adjacencyRestrictions", <<b>>) : b \in FirstId(design) \ {id} }

ConnectionTypes == {"corridor"}

-----------------------------------------------------------------------------
(* The store as a state machine: one action per store action *)

store == Store(currentDesign, selectedModuleId, validationResults, complianceScore)

\* variant: the validator clears the list the store holds and pushes its findings onto it
HeldAfterInPlace(old, run) == run.state.validationResults

\* validateDesign builds its result in a new array (validation.ts:21) and set() replaces the
\* store's reference: the array held before the call keeps its contents
HeldAfter(old, run) == old

\* the call has ended: the store holds run.state; published is recorded when the
\* subscriber is under observation
Finish(name, run, idsUsed, observed) ==
    /\ currentDesign' = run.state.currentDesign
    /\ selectedModuleId' = run.state.selectedModuleId
    /\ validationResults' = run.state.validationResults
    /\ complianceScore' = run.state.complianceScore
    /\ nextId' = nextId + idsUsed
    /\ lastAct' = name
    /\ outcome' = IF run.threw THEN "threw" ELSE "returned"
    /\ published' = IF observed THEN run.pubs ELSE <<>>
    /\ heldFindings' = IF name = "validateDesign" THEN HeldAfter(validationResults, run) ELSE <<>>
    /\ UNCHANGED <<apiVars, scoreVars, callVars>>

\* no function has been applied to the subject yet
NoResult == [fn |-> "none"]

-----------------------------------------------------------------------------
(* APIService: the five methods that go through fetchWithAuth for standards, vehicles,
   materials and environment data.  Numbers of the fallback data are in tenths. *)

ApiMethods ==
    {"getNASAStandards", "getLaunchVehicles", "getLaunchVehicleById", "getMaterials",
     "getEnvironmentData"}

\* the argument of a call: a destination, a vehicle id, or nothing
ApiArguments(method) ==
    CASE method = "getEnvironmentData" -> {"lunar_surface", "MARS_ORBIT"}
      [] method = "getLaunchVehicleById" -> {"falcon_heavy"}
      [] OTHER -> {""}

\* what a server may answer with
Bodies == {"body"}

getFallbackNASAStandards ==
    [volumeRequirements |->
        [nhvPerCrewMinimum |-> 250, nhvPerCrewOptimal |-> 750, sleepVolumePerCrew |-> 25,
         workVolumePerCrew |-> 80, exerciseVolumeMinimum |-> 150],
     lifeSupportStandards |->
        [oxygenPartialPressure |-> [min |-> 160, max |-> 230], co2MaxLevel |-> 7,
         temperatureRange |-> [min |-> 183, max |-> 267], humidityRange |-> [min |-> 250, max |-> 750]],
     safetyFactors |-> [pressureVessel |-> 40, structuralLoad |-> 20, redundancyRequirement |-> 20]]

getFallbackLaunchVehicles ==
    << [id |-> "falcon_heavy", name |-> "SpaceX Falcon Heavy",
        specifications |-> [diameter |-> 52, height |-> 131, volume |-> 1450, massLimit |-> 267000,
                            destination |-> <<"LEO", "GTO", "Mars">>],
        availability |-> [nextLaunch |-> "2025-12-01", costPerKg |-> 14000]] >>

getFallbackMaterials ==
    << [id |-> "aluminum_6061", name |-> "Aluminum 6061-T6",
        properties |-> [density |-> 27000, strength |-> 3100, thermalConductivity |-> 1670,
                        radiation_resistance |-> 8],
        cost |-> 25, availability |-> TRUE] >>

FallbackEnvironments ==
    [destination \in {"lunar_surface"} |->
        [destination |-> "lunar_surface",
         current_conditions |-> [gravity |-> 16, temperature |-> -200, radiation_level |-> 7,
                                 pressure |-> 0],
         forecast |-> <<>>]]

\* environments[destination] || environments['lunar_surface']
getFallbackEnvironmentData(destination) ==
    IF destination \in DOMAIN FallbackEnvironments THEN FallbackEnvironments[destination]
    ELSE FallbackEnvironments["lunar_surface"]

Idle == [pc |-> "idle"]

Settled(call, how, value) ==
    [pc |-> "settled", argument |-> call.argument, failure |-> call.failure, how |-> how,
     value |-> value]

\* variant: every method logs the error and throws it again
CatchRethrowing(method, call) == Settled(call, "rejected", "error")

\* the catch block of the method: the fallback data, except that getLaunchVehicleById
\* throws the error again
Catch(method, call) ==
    CASE method = "getNASAStandards" -> Settled(call, "resolved", getFallbackNASAStandards)
      [] method = "getLaunchVehicles" -> Settled(call, "resolved", getFallbackLaunchVehicles)
      [] method = "getMaterials" -> Settled(call, "resolved", getFallbackMaterials)
      [] method = "getEnvironmentData" ->
            Settled(call, "resolved", getFallbackEnvironmentData(call.argument))
      [] method = "getCommunityDesigns" -> Settled(call, "resolved", <<>>)
      [] OTHER -> Settled(call, "rejected", "error")

\* the method is called and awaits fetch; its earlier call, if any, has settled
ApiCall(method) ==
    /\ requests[method].pc \in {"idle", "settled"}
    /\ \E argument \in ApiArguments(method) :
            requests' = [requests EXCEPT
                            ![method] = [pc |-> "fetching", argument |-> argument, failure |-> "none"]]
    /\ UNCHANGED <<apiVars, storeVars, scoreVars, subject, result>>

\* fetch rejects (no network): the await throws inside the try block
FetchRejects(method) ==
    /\ requests[method].pc = "fetching"
    /\ requests' = [requests EXCEPT
                        ![method] = Catch(method, [requests[method] EXCEPT !.failure = "network"])]
    /\ UNCHANGED <<apiVars, storeVars, scoreVars, subject, result>>

\* fetch resolves with a response; fetchWithAuth throws when it is not OK
FetchResponds(method) ==
    /\ requests[method].pc = "fetching"
    /\ \E ok \in BOOLEAN :
            requests' = [requests EXCEPT
                            ![method] = IF ok THEN [requests[method] EXCEPT !.pc = "parsing"]
                                        ELSE Catch(method, [requests[method] EXCEPT !.failure = "status"])]
    /\ UNCHANGED <<apiVars, storeVars, scoreVars, subject, result>>

\* response.json() resolves and the method returns what it parsed
JsonResolves(method) ==
    /\ requests[method].pc = "parsing"
    /\ \E body \in Bodies :
            requests' = [requests EXCEPT ![method] = Settled(requests[method], "resolved", body)]
    /\ UNCHANGED <<apiVars, storeVars, scoreVars, subject, result>>

\* response.json() rejects (the body is not JSON)
JsonRejects(method) ==
    /\ requests[method].pc = "parsing"
    /\ requests' = [requests EXCEPT
                        ![method] = Catch(method, [requests[method] EXCEPT !.failure = "json"])]
    /\ UNCHANGED <<apiVars, storeVars, scoreVars, subject, result>>

-----------------------------------------------------------------------------
(* The API-integrated store: initializeAPIData and submitDesignToCommunity, called while
   earlier calls are still awaiting their requests.  Each call has an id; the module calls
   initializeAPIData once when the store is created. *)

\* calls made in one run, the one at creation included
MaxCalls == 3

CallIds == 1..MaxCalls

Null == "null"

\* the API part of the state create() is given; nasaStandards is <<>> for null, else
\* <<the standards>>
ApiStoreCreated ==
    [nasaStandards |-> <<>>, launchVehicles |-> <<>>, communityDesigns |-> <<>>,
     apiLoading |-> FALSE, apiError |-> Null]

\* set(partial): the partial state is merged into the store
Set(s, partial) == Merge(s, partial)

Called(fn, pc) == [pc |-> pc, fn |-> fn]

Finished(call, how) == [pc |-> "done", fn |-> call.fn, how |-> how]

\* what a method returns of the body the server answered with: an object, or a list
Parsed(method, body) ==
    IF method \in {"getLaunchVehicles", "getCommunityDesigns"} THEN <<[body |-> body]>>
    ELSE [body |-> body]

\* an APIService method whose request failed (failed = TRUE) or was answered with a body
ServiceSettles(method, failed, body) ==
    IF failed THEN Catch(method, [argument |-> "", failure |-> "network"])
    ELSE Settled([argument |-> "", failure |-> "none"], "resolved", Parsed(method, body))

\* the methods initializeAPIData hands to Promise.all
LoadedMethods == {"getNASAStandards", "getLaunchVehicles", "getCommunityDesigns"}

\* initializeAPIData up to its await
InitializeCalled(s) == Set(s, [apiLoading |-> TRUE, apiError |-> Null])

\* initializeAPIData after Promise.all has resolved with the three values
InitializeLoaded(s, loaded) ==
    Set(s, [nasaStandards |-> <<loaded["getNASAStandards"].value>>,
            launchVehicles |-> loaded["getLaunchVehicles"].value,
            communityDesigns |-> loaded["getCommunityDesigns"].value,
            apiLoading |-> FALSE])

\* the catch block of initializeAPIData
InitializeCaught(s) ==
    Set(s, [apiError |-> "Failed to load live data. Using offline mode.", apiLoading |-> FALSE])

\* submitDesignToCommunity up to its first await
SubmitCalled(s) == Set(s, [apiLoading |-> TRUE])

\* loadCommunityDesigns after getCommunityDesigns has resolved
CommunityDesignsLoaded(s, communityDesigns) == Set(s, [communityDesigns |-> communityDesigns])

\* submitDesignToCommunity after loadCommunityDesigns has returned
SubmitDone(s) == Set(s, [apiLoading |-> FALSE])

\* variant: the catch block throws the error again and leaves the store as it is
SubmitCaughtLoading(s) == s

\* the catch block of submitDesignToCommunity, which then throws the error again
SubmitCaught(s) == Set(s, [apiLoading |-> FALSE])

\* calls get their ids in the order they are made
NextCall(c) ==
    /\ apiCalls[c].pc = "idle"
    /\ \A earlier \in 1..(c - 1) : apiCalls[earlier].pc # "idle"

CallInitialize(c) ==
    /\ NextCall(c)
    /\ apiStore' = InitializeCalled(apiStore)
    /\ apiCalls' = [apiCalls EXCEPT ![c] = Called("initializeAPIData", "loading")]
    /\ UNCHANGED <<storeVars, scoreVars, callVars>>

\* the three requests have settled, each answered or failed, and the call goes on after
\* its await: into the rest of the try block, or into the catch block when Promise.all
\* rejected
LoadSettles(c) ==
    /\ apiCalls[c] = Called("initializeAPIData", "loading")
    /\ \E failing \in SUBSET LoadedMethods, body \in Bodies :
            LET loaded == [method \in LoadedMethods |->
                                ServiceSettles(method, method \in failing, body)]
                rejected == \E method \in LoadedMethods : loaded[method].how = "rejected"
            IN  /\ apiStore' = IF rejected THEN InitializeCaught(apiStore)
                                ELSE InitializeLoaded(apiStore, loaded)
                /\ apiCalls' = [apiCalls EXCEPT
                                    ![c] = Finished(@, IF rejected THEN "caught" ELSE "loaded")]
    /\ UNCHANGED <<storeVars, scoreVars, callVars>>

CallSubmit(c) ==
    /\ NextCall(c)
    /\ apiStore' = SubmitCalled(apiStore)
    /\ apiCalls' = [apiCalls EXCEPT ![c] = Called("submitDesignToCommunity", "submitting")]
    /\ UNCHANGED <<storeVars, scoreVars, callVars>>

\* APIService.submitDesign settles: the call goes on to loadCommunityDesigns, or into its
\* catch block and rejects
SubmitSettles(c) ==
    /\ apiCalls[c] = Called("submitDesignToCommunity", "submitting")
    /\ \E failed \in BOOLEAN, body \in Bodies :
            IF ServiceSettles("submitDesign", failed, body).how = "rejected"
            THEN /\ apiStore' = SubmitCaught(apiStore)
                 /\ apiCalls' = [apiCalls EXCEPT ![c] = Finished(@, "rejected")]
            ELSE /\ apiStore' = apiStore
                 /\ apiCalls' = [apiCalls EXCEPT ![c].pc = "refreshing"]
    /\ UNCHANGED <<storeVars, scoreVars, callVars>>

\* getCommunityDesigns settles within loadCommunityDesigns, which sets what it got
RefreshSettles(c) ==
    /\ apiCalls[c] = Called("submitDesignToCommunity", "refreshing")
    /\ \E failed \in BOOLEAN, body \in Bodies :
            apiStore' = CommunityDesignsLoaded(apiStore,
                                               ServiceSettles("getCommunityDesigns", failed, body).value)
    /\ apiCalls' = [apiCalls EXCEPT ![c].pc = "refreshed"]
    /\ UNCHANGED <<storeVars, scoreVars, callVars>>

\* submitDesignToCommunity goes on after await get().loadCommunityDesigns()
SubmitResumes(c) ==
    /\ apiCalls[c] = Called("submitDesignToCommunity", "refreshed")
    /\ apiStore' = SubmitDone(apiStore)
    /\ apiCalls' = [apiCalls EXCEPT ![c] = Finished(@, "resolved")]
    /\ UNCHANGED <<storeVars, scoreVars, callVars>>

Init ==
    /\ currentDesign = SampleDesign0
    /\ selectedModuleId = 0
    /\ validationResults = <<>>
    /\ complianceScore = SampleDesign0.complianceScore
    /\ nextId = 0
    /\ lastAct = "init"
    /\ outcome = "returned"
    /\ published = <<>>
    /\ heldFindings = <<>>
    /\ scoreInput = <<>>
    /\ scoreOutput = -1
    /\ subject = CreateDefaultDesign
    /\ result = NoResult
    /\ requests = [method \in ApiMethods |-> Idle]
    /\ apiStore = InitializeCalled(ApiStoreCreated)
    /\ apiCalls = [c \in CallIds |-> IF c = 1 THEN Called("initializeAPIData", "loading") ELSE Idle]

DoCreateNewDesign(observed) == Finish("createNewDesign", CreateNewDesign(store), 0, observed)

DoLoadDesign(observed) == \E design \in LoadableDesigns : Finish("loadDesign", LoadDesign(store, design), 0, observed)

DoUpdateHabitatDimensions(observed) ==
    \E dimensions \in DimensionUpdates :
        Finish("updateHabitatDimensions", UpdateHabitatDimensions(store, dimensions), 0, observed)

DoUpdateMissionParameters(observed) ==
    \E params \in MissionUpdates :
        Finish("updateMissionParameters", UpdateMissionParameters(store, params), 0, observed)

DoAddModule(observed) ==
    /\ nextId < MaxIds
    /\ \E moduleData \in ModuleInputs(currentDesign) :
            Finish("addModule", AddModule(store, moduleData, nextId + 1), 1, observed)

DoUpdateModule(observed) ==
    \E id \in ModuleIds(currentDesign) : \E updates \in ModuleUpdates(currentDesign, id) :
        Finish("updateModule", UpdateModule(store, id, updates), 0, observed)

DoRemoveModule(observed) ==
    \E id \in ModuleIds(currentDesign) : Finish("removeModule", RemoveModule(store, id), 0, observed)

DoSelectModule(observed) ==
    \E id \in ModuleIds(currentDesign) \cup {0} :
        /\ id # selectedModuleId
        /\ Finish("selectModule", SelectModule(store, id), 0, observed)

DoAddConnection(observed) ==
    /\ nextId < MaxIds
    /\ \E fromId \in ModuleIds(currentDesign) : \E toId \in ModuleIds(currentDesign) \ {fromId} :
        \E type \in ConnectionTypes :
            Finish("addConnection", AddConnection(store, fromId, toId, type, nextId + 1), 1, observed)

DoRemoveConnection(observed) ==
    \E connectionId \in ConnectionIds(currentDesign) :
        Finish("removeConnection", RemoveConnection(store, connectionId), 0, observed)

DoValidateDesign(observed) == Finish("validateDesign", ValidateDesignAction(store), 0, observed)

Step(observed) ==
    \/ DoCreateNewDesign(observed)
    \/ DoLoadDesign(observed)
    \/ DoUpdateHabitatDimensions(observed)
    \/ DoUpdateMissionParameters(observed)
    \/ DoAddModule(observed)
    \/ DoUpdateModule(observed)
    \/ DoRemoveModule(observed)
    \/ DoSelectModule(observed)
    \/ DoAddConnection(observed)
    \/ DoRemoveConnection(observed)
    \/ DoValidateDesign(observed)

Next == Step(FALSE)

Spec == Init /\ [][Next]_vars

\* the same store with the subscription on state.currentDesign under observation
NextObserved == Step(TRUE)

SpecObserved == Init /\ [][NextObserved]_vars

-----------------------------------------------------------------------------
(* calculateComplianceScore applied to finding lists of every mix of severities *)

Severities == {"error", "warning", "info"}

ScorePush ==
    /\ Len(scoreInput) < MaxFindings
    /\ \E severity \in Severities :
            scoreInput' = Append(scoreInput, Finding("safety", severity, <<"finding">>, <<>>, "standard"))
    /\ scoreOutput' = -1
    /\ UNCHANGED <<apiVars, storeVars, callVars>>

ScoreCompute ==
    /\ scoreOutput = -1
    /\ scoreOutput' = CalculateComplianceScore(scoreInput)
    /\ UNCHANGED <<apiVars, scoreInput, storeVars, callVars>>

NextScore == ScorePush \/ ScoreCompute

SpecScore == Init /\ [][NextScore]_vars

-----------------------------------------------------------------------------
(* The module and connection actions of the store, from a loaded design of two modules, with
   addConnection given any ids *)

\* an id no module of the design has
StrangerId == 999

\* the design of two modules, exported after a corridor was added between them
ImportedLinked ==
    Validated(WithMetrics([CreateDefaultDesign EXCEPT
                              !.modules = ImportedPairModules,
                              !.connections = << [id |-> 103, fromModuleId |-> 101, toModuleId |-> 102,
                                                  type |-> "corridor", diameter |-> 8] >>]))

\* the store after loadDesign(ImportedLinked)
InitLoaded ==
    /\ currentDesign = ImportedLinked
    /\ selectedModuleId = 0
    /\ validationResults = ImportedLinked.validationResults
    /\ complianceScore = ImportedLinked.complianceScore
    /\ nextId = 0
    /\ lastAct = "loadDesign"
    /\ outcome = "returned"
    /\ published = <<>>
    /\ heldFindings = <<>>
    /\ scoreInput = <<>>
    /\ scoreOutput = -1
    /\ subject = CreateDefaultDesign
    /\ result = NoResult
    /\ requests = [method \in ApiMethods |-> Idle]
    /\ apiStore = InitializeCalled(ApiStoreCreated)
    /\ apiCalls = [c \in CallIds |-> IF c = 1 THEN Called("initializeAPIData", "loading") ELSE Idle]

\* addConnection(fromId, toId, type): fromId and toId are strings, module ids or not
DoAddConnectionOfAny ==
    /\ nextId < MaxIds
    /\ \E fromId \in ModuleIds(currentDesign) \cup {StrangerId} :
       \E toId \in (ModuleIds(currentDesign) \cup {StrangerId}) \ {fromId} :
       \E type \in ConnectionTypes :
            Finish("addConnection", AddConnection(store, fromId, toId, type, nextId + 1), 1, FALSE)

NextModules ==
    \/ DoAddModule(FALSE)
    \/ DoUpdateModule(FALSE)
    \/ DoRemoveModule(FALSE)
    \/ DoAddConnectionOfAny
    \/ DoRemoveConnection(FALSE)

SpecModules == InitLoaded /\ [][NextModules]_vars

-----------------------------------------------------------------------------
(* HabitatValidator.validateDesign applied to designs of every kind the sub-checks tell apart *)

\* connections between the given pairs of ends, in the order given
Links(ends) ==
    [i \in 1..Len(ends) |->
        [id |-> 300 + i, fromModuleId |-> ends[i][1], toModuleId |-> ends[i][2],
         type |-> "corridor", diameter |-> 8]]

\* every list of up to MaxLinks connections between a and c, in either direction
LinkLists(a, c) == UNION {[1..n -> {<<a, c>>, <<c, a>>}] : n \in 0..MaxLinks}

\* a laboratory and crew quarters; the laboratory may list the quarters in its adjacency
\* restrictions, and any number of connections may join the two
AdjacencyDesigns ==
    { [CreateDefaultDesign EXCEPT
          !.modules =
              << [id |-> 201, type |-> "laboratory", name |-> "Research Lab", volume |-> 25000,
                  mass |-> 1000, powerRequirement |-> 5, crewCapacity |-> 0,
                  adjacencyRequirements |-> <<>>, adjacencyRestrictions |-> restrictions],
                 [id |-> 202, type |-> "habitation", name |-> "Crew Quarters", volume |-> 20000,
                  mass |-> 1000, powerRequirement |-> 5, crewCapacity |-> 4,
                  adjacencyRequirements |-> <<>>, adjacencyRestrictions |-> <<>>] >>,
          !.connections = Links(ends)]
        : restrictions \in {<<>>, <<202>>}, ends \in LinkLists(201, 202) }

\* a module of the given type and volume, with the other fields of no account
ModuleOf(id, type, volume) ==
    [id |-> id, type |-> type, name |-> type, volume |-> volume, mass |-> 1000,
     powerRequirement |-> 5, crewCapacity |-> 2,
     adjacencyRequirements |-> <<>>, adjacencyRestrictions |-> <<>>]

IsPresent(module) == module.volume > 0

\* net habitable volumes on both sides of the minimum and of the optimum, for a crew of 4 and
\* missions of 180 and 181 days (100 and 300 m3, 120 and 360 m3)
VolumeDesigns ==
    { [CreateDefaultDesign EXCEPT !.netHabitableVolume = volume,
                                  !.missionParameters.duration = duration]
        : volume \in {0, 99999, 100000, 119999, 120000, 299999, 300000, 359999, 360000, 603186},
          duration \in {180, 181} }

\* habitation, laboratory, command and recreation modules, each absent or with a volume on
\* either side of what a crew of 4 requires (10, 32 and 40 m3)
AreaDesigns ==
    { [CreateDefaultDesign EXCEPT
          !.modules = SelectSeq(<< ModuleOf(401, "habitation", sleep),
                                   ModuleOf(402, "laboratory", laboratory),
                                   ModuleOf(403, "command", command),
                                   ModuleOf(404, "recreation", common) >>, IsPresent)]
        : sleep \in {0, 9999, 10000}, laboratory \in {0, 16000}, command \in {0, 15999, 16000},
          common \in {0, 39999, 40000} }

ModuleTypeNames ==
    <<"command", "habitation", "laboratory", "logistics", "exercise", "medical", "airlock",
      "greenhouse", "workshop", "recreation">>

\* the modules of the given types, in the order of ModuleTypeNames, then the extra ones
ModulesOfTypes(types, extra) ==
    LET IsAmong(type) == type \in types
        listed == SelectSeq(ModuleTypeNames, IsAmong) \o extra
    IN  [i \in 1..Len(listed) |-> ModuleOf(500 + i, listed[i], 20000)]

\* any set of the first seven module types, alone or followed by a second habitation module
\* or by a workshop
TypeDesigns ==
    { [CreateDefaultDesign EXCEPT !.modules = ModulesOfTypes(types, extra)]
        : types \in SUBSET {ModuleTypeNames[i] : i \in 1..7},
          extra \in {<<>>, <<"habitation">>, <<"workshop">>} }

\* crew quarters for 4 and up to two airlocks whose capacities sum to less than, exactly, or
\* more than the crew of 4, with emergency evacuation required or not
EvacuationDesigns ==
    { [CreateDefaultDesign EXCEPT
          !.missionParameters.emergencyEvacuation = emergencyEvacuation,
          !.modules = << [ModuleOf(601, "habitation", 20000) EXCEPT !.crewCapacity = 4] >>
                      \o [i \in 1..Len(capacities) |->
                            [ModuleOf(601 + i, "airlock", 10000) EXCEPT !.crewCapacity = capacities[i]]]]
        : emergencyEvacuation \in BOOLEAN,
          capacities \in {<<>>, <<0>>, <<3>>, <<4>>, <<6>>, <<1, 2>>, <<2, 2>>, <<3, 3>>} }

\* missions of every duration category and of no category (0 days), with a greenhouse or
\* with a workshop in its place
MissionDesigns ==
    { [CreateDefaultDesign EXCEPT
          !.missionParameters.duration = duration,
          !.modules = << ModuleOf(701, IF greenhouse THEN "greenhouse" ELSE "workshop", 30000) >>]
        : duration \in {0, 1, 30, 31, 180, 181, 500, 501, 1000, 1001, 10000},
          greenhouse \in BOOLEAN }

\* cylinders from 1 m x 2 m to 8 m x 30 m and two spheres, on each of the four vehicles
LaunchDimensions ==
    { Dimensions("cylinder", << <<"radius", radius>>, <<"height", height>> >>)
        : radius \in {5, 10, 25, 40}, height \in {20, 120, 300} }
    \cup { Dimensions("sphere", << <<"sphereRadius", radius>> >>) : radius \in {10, 30} }

LaunchDesigns ==
    { [CreateDefaultDesign EXCEPT !.dimensions = dimensions,
                                  !.missionParameters.launchVehicle = launchVehicle]
        : dimensions \in LaunchDimensions, launchVehicle \in VehicleIds }

ValidatorSubjects ==
    AdjacencyDesigns \cup VolumeDesigns \cup AreaDesigns \cup TypeDesigns \cup EvacuationDesigns
        \cup MissionDesigns \cup LaunchDesigns

TakeDesign ==
    /\ \E design \in ValidatorSubjects : subject' = design
    /\ result' = NoResult
    /\ UNCHANGED <<apiVars, storeVars, scoreVars, requests>>

\* what validateDesign and calculateComplianceScore come to for the subject
Validation(v) ==
    IF v.ok THEN [fn |-> "validateDesign", ok |-> TRUE, results |-> v.results,
                  score |-> CalculateComplianceScore(v.results)]
    ELSE [fn |-> "validateDesign", ok |-> FALSE]

Validate ==
    /\ result = NoResult
    /\ result' = Validation(ValidateDesign(subject))
    /\ UNCHANGED <<apiVars, subject, storeVars, scoreVars, requests>>

\* the functional-area part of the volume sub-check, on its own
ValidateAreas ==
    /\ result = NoResult
    /\ result' = [fn |-> "validateFunctionalAreaVolumes",
                  results |-> ValidateFunctionalAreaVolumes(subject)]
    /\ UNCHANGED <<apiVars, subject, storeVars, scoreVars, requests>>

CrewSizes == {1, 4, 8}

\* durations on both sides of the thresholds of calculateRequiredNHV
Durations == {1, 179, 180, 181, 499, 500, 501, 999, 1000, 1001, 10000}

RequireNHV ==
    /\ \E crewSize \in CrewSizes, duration \in Durations :
            result' = [fn |-> "calculateRequiredNHV", crewSize |-> crewSize, duration |-> duration,
                       required |-> CalculateRequiredNHV(crewSize, duration)]
    /\ UNCHANGED <<apiVars, subject, storeVars, scoreVars, requests>>

\* getMissionDurationCategory on the subject's duration
Categorise ==
    /\ result = NoResult
    /\ result' = [fn |-> "getMissionDurationCategory",
                  category |-> GetMissionDurationCategory(subject.missionParameters.duration)]
    /\ UNCHANGED <<apiVars, subject, storeVars, scoreVars, requests>>

NextValidator == TakeDesign \/ Validate \/ ValidateAreas \/ RequireNHV \/ Categorise

SpecValidator == Init /\ [][NextValidator]_vars

\* the longest mission classified
MaxDuration == 10000

\* the duration classified last, 0 before the first
LastDuration == IF result.fn = "classifyDuration" THEN result.duration ELSE 0

\* getMissionDurationCategory and the multiplier of calculateRequiredNHV (with a crew of
\* one the minimum is NHV_PER_CREW_MINIMUM times the multiplier) on the next whole number
\* of days
ClassifyDuration ==
    /\ LastDuration < MaxDuration
    /\ result' = [fn |-> "classifyDuration", duration |-> LastDuration + 1,
                  category |-> GetMissionDurationCategory(LastDuration + 1),
                  multiplier |-> DurationMultiplier(LastDuration + 1),
                  required |-> CalculateRequiredNHV(1, LastDuration + 1)]
    /\ UNCHANGED <<apiVars, subject, storeVars, scoreVars, requests>>

NextDurations == ClassifyDuration

SpecDurations == Init /\ [][NextDurations]_vars

-----------------------------------------------------------------------------
(* HabitatGeometry applied to dimension records of every shape *)

\* the fields the shape's case of calculateVolume and calculateSurfaceArea reads
ShapeFields(shape) ==
    IF shape = "custom" THEN {}
    ELSE {ShapeDefaults(shape)[i][1] : i \in 1..Len(ShapeDefaults(shape))}

\* a field is zero, negative or positive, or it is missing
FieldValues == {0, -10, 40}

GeometryDimensions ==
    UNION { { [shape |-> shape, f |-> f] :
                f \in UNION {[present -> FieldValues] : present \in SUBSET ShapeFields(shape)} }
            : shape \in Shapes }

TakeDimensions ==
    /\ \E d \in GeometryDimensions : subject' = [subject EXCEPT !.dimensions = d]
    /\ result' = NoResult
    /\ UNCHANGED <<apiVars, storeVars, scoreVars, requests>>

ComputeVolume ==
    /\ result.fn \in {"none", "geometry"}
    /\ "volume" \notin DOMAIN result
    /\ result' = Merge(result, [fn |-> "geometry", volume |-> CalculateVolume(subject.dimensions)])
    /\ UNCHANGED <<apiVars, subject, storeVars, scoreVars, requests>>

ComputeSurfaceArea ==
    /\ result.fn \in {"none", "geometry"}
    /\ "area" \notin DOMAIN result
    /\ result' = Merge(result, [fn |-> "geometry", area |-> CalculateSurfaceArea(subject.dimensions)])
    /\ UNCHANGED <<apiVars, subject, storeVars, scoreVars, requests>>

\* target volumes of 100, 600 and 1000 m3
TargetVolumes == {100000, 600000, 1000000}

\* the aspectRatio argument: left out, or given
AspectRatios == {<<>>, <<1>>, <<3>>}

\* aspectRatio: number = 2.0
AspectRatioOf(given) == IF given = <<>> THEN 2 ELSE given[1]

Recommend ==
    /\ \E shape \in Shapes, targetVolume \in TargetVolumes, aspectRatio \in AspectRatios :
            result' = [fn |-> "generateRecommendedDimensions", shape |-> shape,
                       targetVolume |-> targetVolume, aspectRatio |-> aspectRatio,
                       dimensions |-> GenerateRecommendedDimensions(shape, targetVolume,
                                                                    AspectRatioOf(aspectRatio))]
    /\ UNCHANGED <<apiVars, subject, storeVars, scoreVars, requests>>

NextGeometry == TakeDimensions \/ ComputeVolume \/ ComputeSurfaceArea \/ Recommend

SpecGeometry == Init /\ [][NextGeometry]_vars

-----------------------------------------------------------------------------
(* APIService under calls of its methods, each request settling in any of its ways *)

NextApi ==
    \E method \in ApiMethods :
        \/ ApiCall(method)
        \/ FetchRejects(method)
        \/ FetchResponds(method)
        \/ JsonResolves(method)
        \/ JsonRejects(method)

SpecApi == Init /\ [][NextApi]_vars

NextApiStore ==
    \E c \in CallIds :
        \/ CallInitialize(c)
        \/ LoadSettles(c)
        \/ CallSubmit(c)
        \/ SubmitSettles(c)
        \/ RefreshSettles(c)
        \/ SubmitResumes(c)

SpecApiStore == Init /\ [][NextApiStore]_vars

\* every request settles, and a call whose await has settled goes on
RequestsSettle ==
    \A c \in CallIds :
        /\ WF_vars(LoadSettles(c))
        /\ WF_vars(SubmitSettles(c))
        /\ WF_vars(RefreshSettles(c))
        /\ WF_vars(SubmitResumes(c))

SpecApiStoreSettling == SpecApiStore /\ RequestsSettle

-----------------------------------------------------------------------------
(* Properties of the store and of the validator *)

MutatingActions ==
    {"createNewDesign", "loadDesign", "updateHabitatDimensions", "updateMissionParameters",
     "addModule", "updateModule", "removeModule", "addConnection", "removeConnection"}

\* the calls that end with a validation run
ValidatingActions == MutatingActions \cup {"validateDesign"}

Returned(actions) == lastAct \in actions /\ outcome = "returned"

\* C1: after a mutating store action has returned, the store's validationResults and
\* currentDesign.validationResults both equal HabitatValidator.validateDesign of the
\* current design, and complianceScore (store and design) is calculateComplianceScore
\* of exactly those findings.
C1_FindingsAndScoreCurrent ==
    Returned(MutatingActions) =>
        LET v == ValidateDesign(currentDesign)
        IN  /\ v.ok
            /\ validationResults = v.results
            /\ currentDesign.validationResults = v.results
            /\ complianceScore = CalculateComplianceScore(v.results)
            /\ currentDesign.complianceScore = CalculateComplianceScore(v.results)

\* a mission-parameter edit has returned and left findings and a score below 100
C1_Witness ==
    /\ Returned({"updateMissionParameters"})
    /\ validationResults # <<>>
    /\ complianceScore < 100
    /\ currentDesign.validationResults = validationResults

\* C2: validateDesign never throws and always returns a finding list, whatever the shape
\* and the dimension fields of the design; when the geometry engine fails inside the
\* launch-constraints sub-check only that sub-check is skipped and the findings of the
\* volume, crew, safety, module and life-support sub-checks are returned.
C2_ValidationNeverThrows ==
    LET v == ValidateDesign(currentDesign)
    IN  /\ v.ok
        /\ outcome = "threw" => lastAct \notin {"loadDesign", "updateMissionParameters", "addConnection",
                                                "removeConnection", "validateDesign"}
        /\ ~ValidateLaunchConstraints(currentDesign).ok =>
              v.results = ValidateVolumeRequirements(currentDesign)
                          \o ValidateCrewRequirements(currentDesign)
                          \o ValidateSafetyRequirements(currentDesign)
                          \o ValidateModuleRequirements(currentDesign)
                          \o ValidateLifeSupportRequirements(currentDesign)

CountSeverity(results, severity) ==
    Cardinality({i \in 1..Len(results) : results[i].severity = severity})

WeightedDeductions(results) ==
    15 * CountSeverity(results, "error") + 5 * CountSeverity(results, "warning")
        + CountSeverity(results, "info")

\* C3: for a finding list with e errors, w warnings and i infos calculateComplianceScore
\* returns max(0, 100 - 15e - 5w - i): an integer in 0..100, 100 for the empty list,
\* 70 for two errors, and 0 once the deductions reach or exceed 100.
C3_ComplianceScore ==
    scoreOutput # -1 =>
        /\ scoreOutput = (IF WeightedDeductions(scoreInput) >= 100 THEN 0
                          ELSE 100 - WeightedDeductions(scoreInput))
        /\ scoreOutput \in 0..100
        /\ scoreInput = <<>> => scoreOutput = 100
        /\ (Len(scoreInput) = 2 /\ CountSeverity(scoreInput, "error") = 2) => scoreOutput = 70
        /\ WeightedDeductions(scoreInput) >= 100 => scoreOutput = 0

\* a list whose deductions exceed 100 has been scored 0
C3_Witness == scoreOutput = 0 /\ WeightedDeductions(scoreInput) > 100

MetricNames == {"totalVolume", "pressurizedVolume", "netHabitableVolume", "totalMass", "powerRequirement"}

MetricsOf(design) == [k \in MetricNames |-> design[k]]

\* C4: after a mutating store action has returned (loadDesign, updateMissionParameters,
\* addConnection and removeConnection included) the design's aggregate metrics equal the
\* values recomputed from scratch from its dimensions and its module list.
C4_MetricsRecomputed ==
    Returned(MutatingActions) =>
        LET m == CalculateDesignMetrics(currentDesign)
        IN  m.ok /\ MetricsOf(currentDesign) = m.metrics

\* C5: a mutation recomputes the metrics, then runs the validation, then publishes: every
\* state handed to the subscribers carries the findings and the score of the design it
\* carries, never those of the design before the mutation.
C5_PublishedAfterValidation ==
    \A i \in 1..Len(published) :
        LET v == ValidateDesign(published[i].currentDesign)
        IN  v.ok =>
                /\ published[i].validationResults = v.results
                /\ published[i].currentDesign.validationResults = v.results
                /\ published[i].complianceScore = CalculateComplianceScore(v.results)

\* C6: validation is idempotent: a store validateDesign call made when the last call, a
\* mutation or a validateDesign, has returned finds the design unchanged since its
\* validation, returns, and leaves validationResults, complianceScore and the design's own
\* copy of them exactly as that call left them.
C6_SecondRunChangesNothing ==
    [][ (lastAct' = "validateDesign" /\ Returned(ValidatingActions)) =>
            /\ outcome' = "returned"
            /\ validationResults' = validationResults
            /\ complianceScore' = complianceScore
            /\ currentDesign' = currentDesign ]_vars

\* validateDesign has run on a design that holds findings, and the store holds the same findings
C6_Witness ==
    /\ Returned({"validateDesign"})
    /\ heldFindings # <<>>
    /\ heldFindings = validationResults
    /\ currentDesign.validationResults = validationResults

\* the design without the two fields a validation run writes
FrameOf(design) == [k \in (DOMAIN design) \ {"validationResults", "complianceScore"} |-> design[k]]

ShapeDiameter(d) ==
    CASE d.shape = "cylinder" -> 2 * d.f["radius"]
      [] d.shape = "sphere" -> 2 * d.f["sphereRadius"]

ExceededAxes(d, fairing) ==
    (IF ShapeDiameter(d) > fairing.diameter THEN {"Habitat diameter exceeds fairing diameter"} ELSE {})
    \cup (IF GetEffectiveHeight(d) > fairing.height THEN {"Habitat height exceeds fairing height"} ELSE {})
    \cup (IF CalculateStructuralMass(d).v > fairing.mass_limit
            THEN {"Structural mass exceeds launch capacity"} ELSE {})

\* C8: checkLaunchConstraints returns fits = true and no violation when diameter, effective
\* height and structural mass are each below their limit; otherwise fits = false and the
\* violations are exactly one for each axis (diameter, height, mass) whose value exceeds
\* its limit.
C8_OneViolationPerExceededAxis ==
    LET d == currentDesign.dimensions
        key == ToUpperCase(currentDesign.missionParameters.launchVehicle)
    IN  (/\ lastAct # "init"
         /\ key \in FairingKeys
         /\ d.shape \in {"cylinder", "sphere"}
         /\ CalculateStructuralMass(d).ok) =>
            LET fairing == PAYLOAD_FAIRINGS[key]
                constraints == CheckLaunchConstraints(d, fairing.diameter, fairing.height, fairing.mass_limit)
            IN  /\ constraints.fits = (ExceededAxes(d, fairing) = {})
                /\ Len(constraints.violations) = Cardinality(ExceededAxes(d, fairing))
                /\ {constraints.violations[i][1] : i \in 1..Len(constraints.violations)}
                        = ExceededAxes(d, fairing)

UnknownVehicle(design) == ToUpperCase(design.missionParameters.launchVehicle) \notin FairingKeys

\* C9: when the launch-vehicle id, upper-cased, is not a key of the fairing table,
\* validation does not fail; between the findings of the volume sub-check and those of the
\* crew, safety, module and life-support sub-checks stands exactly one finding, an error
\* whose message begins "Unknown launch vehicle"; and the store holds that list once a
\* call has returned.
C9_UnknownLaunchVehicle ==
    UnknownVehicle(currentDesign) =>
        LET v == ValidateDesign(currentDesign)
            volume == ValidateVolumeRequirements(currentDesign)
            others == ValidateCrewRequirements(currentDesign)
                      \o ValidateSafetyRequirements(currentDesign)
                      \o ValidateModuleRequirements(currentDesign)
                      \o ValidateLifeSupportRequirements(currentDesign)
        IN  /\ v.ok
            /\ Len(v.results) = Len(volume) + 1 + Len(others)
            /\ v.results = volume \o << v.results[Len(volume) + 1] >> \o others
            /\ v.results[Len(volume) + 1].severity = "error"
            /\ v.results[Len(volume) + 1].message[1] = "Unknown launch vehicle: "
            /\ Returned(ValidatingActions) => validationResults = v.results

\* a mission-parameter edit naming an unknown vehicle has returned on a custom-shape design,
\* where the geometry engine fails
C9_Witness ==
    /\ UnknownVehicle(currentDesign)
    /\ Returned({"updateMissionParameters"})
    /\ currentDesign.dimensions.shape = "custom"
    /\ Len(validationResults) > 1

Occurrences(list, x) == Cardinality({j \in 1..Len(list) : list[j] = x})

\* module a lists b exactly once in its adjacency requirements
RequiresOnce(design, a, b) ==
    \E i \in 1..Len(design.modules) :
        design.modules[i].id = a /\ Occurrences(design.modules[i].adjacencyRequirements, b) = 1

\* module a lists b in its adjacency restrictions
Restricts(design, a, b) ==
    \E i \in 1..Len(design.modules) :
        design.modules[i].id = a /\ Occurrences(design.modules[i].adjacencyRestrictions, b) > 0

Joined(design, a, b) ==
    \E i \in 1..Len(design.connections) :
        {design.connections[i].fromModuleId, design.connections[i].toModuleId} = {a, b}

ModuleName(design, id) == (CHOOSE m \in {design.modules[i] : i \in 1..Len(design.modules)} : m.id = id).name

IsAdjacencyWarning(f, a, b) ==
    f.category = "adjacency" /\ f.severity = "warning" /\ f.affectedModules = <<a, b>>

AdjacencyWarnings(results, a, b) == {i \in 1..Len(results) : IsAdjacencyWarning(results[i], a, b)}

WithoutWarnings(results, a, b) ==
    LET Keep(f) == ~IsAdjacencyWarning(f, a, b) /\ ~IsAdjacencyWarning(f, b, a)
    IN  SelectSeq(results, Keep)

\* in a validated design where A requires B: one warning naming A and B while no connection
\* joins them, none once one does
C10_WarningWhileApart ==
    Returned(ValidatingActions) =>
        \A a \in ModuleIds(currentDesign) : \A b \in ModuleIds(currentDesign) \ {a} :
            RequiresOnce(currentDesign, a, b) =>
                IF Joined(currentDesign, a, b)
                THEN AdjacencyWarnings(validationResults, a, b) = {}
                ELSE /\ Cardinality(AdjacencyWarnings(validationResults, a, b)) = 1
                     /\ \A i \in AdjacencyWarnings(validationResults, a, b) :
                            /\ validationResults[i].message[2] = ModuleName(currentDesign, a)
                            /\ validationResults[i].message[3] = ModuleName(currentDesign, b)

\* an addConnection call that joins A and B, apart until then, returns with the findings it
\* found less the warnings of the pair; restricted says whether pairs under an adjacency
\* restriction are left out
C10_ConnectionStep(restricted) ==
    (lastAct' = "addConnection" /\ outcome' = "returned" /\ Returned(ValidatingActions)) =>
        \A a \in ModuleIds(currentDesign) : \A b \in ModuleIds(currentDesign) \ {a} :
            (/\ RequiresOnce(currentDesign, a, b)
             /\ ~Joined(currentDesign, a, b)
             /\ Joined(currentDesign', a, b)
             /\ restricted => (~Restricts(currentDesign, a, b) /\ ~Restricts(currentDesign, b, a))) =>
                /\ AdjacencyWarnings(validationResults', a, b) = {}
                /\ validationResults' = WithoutWarnings(validationResults, a, b)

\* C10 as stated: where A lists B in its adjacency requirements and no connection joins
\* them, validation yields exactly one adjacency warning, naming A and B; after a connection
\* between A and B is added in either direction the next run has no adjacency warning for
\* the pair and no new finding in its place.
C10_AsStated == []C10_WarningWhileApart /\ [][C10_ConnectionStep(FALSE)]_vars

\* C10, amended: the same, for pairs where A lists B once and neither module lists the
\* other in its adjacency restrictions (a connection between a restricted pair brings the
\* restriction's error).
C10_Adjacency == []C10_WarningWhileApart /\ [][C10_ConnectionStep(TRUE)]_vars

\* a connection from B to A has been added where A requires B, and no adjacency finding is left
C10_Witness ==
    /\ Returned({"addConnection"})
    /\ \E a \in ModuleIds(currentDesign) : \E b \in ModuleIds(currentDesign) \ {a} :
            /\ RequiresOnce(currentDesign, a, b)
            /\ \E i \in 1..Len(currentDesign.connections) :
                    /\ currentDesign.connections[i].fromModuleId = b
                    /\ currentDesign.connections[i].toModuleId = a
            /\ \A i \in 1..Len(validationResults) : validationResults[i].category # "adjacency"

\* the actions that compute the metrics of the changed design before storing it
RecomputingActions == {"updateHabitatDimensions", "addModule", "updateModule", "removeModule"}

\* a call of one of these actions has thrown and has left the design, the findings and the
\* score as they were
C25_FailedStep ==
    (lastAct' \in RecomputingActions /\ outcome' = "threw") =>
        /\ currentDesign' = currentDesign
        /\ validationResults' = validationResults
        /\ complianceScore' = complianceScore

\* C25: when the computation of the metrics throws during updateHabitatDimensions,
\* addModule, updateModule or removeModule, the call throws and currentDesign,
\* validationResults and complianceScore are as they were before the call.
C25_AtomicOnFailure == [][C25_FailedStep]_vars

\* addModule has thrown on a design of custom shape, and updateHabitatDimensions can throw too
C25_Witness ==
    /\ lastAct = "addModule"
    /\ outcome = "threw"
    /\ currentDesign.dimensions.shape = "custom"
    /\ ~CalculateDesignMetrics(currentDesign).ok

\* C26: from a design whose connections all join modules of the design, after any sequence
\* of addModule, updateModule, removeModule, addConnection and removeConnection the
\* fromModuleId and toModuleId of every connection are ids of modules of the design.
C26_ConnectionsJoinModules ==
    \A i \in 1..Len(currentDesign.connections) :
        /\ currentDesign.connections[i].fromModuleId \in ModuleIds(currentDesign)
        /\ currentDesign.connections[i].toModuleId \in ModuleIds(currentDesign)

\* the design and the selection after the module id and its connections are taken away
RemovedFrom(id) ==
    LET Others(module) == module.id # id
        Apart(conn) == conn.fromModuleId # id /\ conn.toModuleId # id
    IN  /\ currentDesign'.modules = SelectSeq(currentDesign.modules, Others)
        /\ currentDesign'.connections = SelectSeq(currentDesign.connections, Apart)
        /\ selectedModuleId' = (IF selectedModuleId = id THEN 0 ELSE selectedModuleId)
        /\ currentDesign'.dimensions = currentDesign.dimensions
        /\ currentDesign'.missionParameters = currentDesign.missionParameters

C27_RemoveStep ==
    (lastAct' = "removeModule" /\ outcome' = "returned") =>
        \E id \in ModuleIds(currentDesign) \ ModuleIds(currentDesign') : RemovedFrom(id)

CallsInFlight == {c \in CallIds : apiCalls[c].pc \notin {"idle", "done"}}

CallsFinished(fn, how) ==
    {c \in CallIds : apiCalls[c].pc = "done" /\ apiCalls[c].fn = fn /\ apiCalls[c].how = how}

\* apiLoading is false once every call made has finished
C30_IdleWhenFinished == CallsInFlight = {} => ~apiStore.apiLoading

\* apiError is set only when the parallel load of an initializeAPIData call failed
C30_ErrorFromFailedLoad ==
    apiStore.apiError # Null => CallsFinished("initializeAPIData", "caught") # {}

\* C30: in the API-integrated store, under any interleaving of initializeAPIData and
\* submitDesignToCommunity calls whose requests eventually settle, apiLoading eventually
\* becomes false and is false once every started call has finished, whether the calls
\* succeeded or failed; apiError is set only when the parallel load of initializeAPIData
\* failed.
C30_ApiLoadingSettles ==
    /\ []C30_IdleWhenFinished
    /\ apiStore.apiLoading ~> ~apiStore.apiLoading
    /\ []C30_ErrorFromFailedLoad

\* the load made at creation has finished and a submission made meanwhile has failed:
\* nothing is in flight and apiLoading is false
C30_Witness ==
    /\ CallsInFlight = {}
    /\ CallsFinished("initializeAPIData", "loaded") # {}
    /\ CallsFinished("submitDesignToCommunity", "rejected") # {}
    /\ ~apiStore.apiLoading
    /\ apiStore.apiError = Null

\* the store actions that call calculateDesignMetrics
MetricActions == RecomputingActions \cup {"createNewDesign"}

\* the sum of the volumes of the modules
ModuleVolumes(design) ==
    LET RECURSIVE Total(_)
        Total(i) == IF i > Len(design.modules) THEN 0 ELSE design.modules[i].volume + Total(i + 1)
    IN  Total(1)

\* the habitable volume is the total volume less 30 % of the module volumes, and not below 0
C28_HabitableVolume ==
    Returned(MetricActions) =>
        /\ currentDesign.netHabitableVolume * 10
                = Max2(0, currentDesign.totalVolume * 10 - 3 * ModuleVolumes(currentDesign))
        /\ currentDesign.pressurizedVolume = currentDesign.totalVolume
        /\ 0 <= currentDesign.netHabitableVolume
        /\ currentDesign.netHabitableVolume <= currentDesign.totalVolume

C28_AddStep ==
    (lastAct' = "addModule" /\ outcome' = "returned") =>
        currentDesign'.netHabitableVolume <= currentDesign.netHabitableVolume

\* C28: after every store action that recomputes the metrics netHabitableVolume is
\* max(0, totalVolume - 0.3 x the sum of the module volumes) and pressurizedVolume is
\* totalVolume, so that 0 <= netHabitableVolume <= totalVolume, and adding a module never
\* increases netHabitableVolume.
C28_NetHabitableVolume == []C28_HabitableVolume /\ [][C28_AddStep]_vars

\* from a state whose metrics are those of its design, adding a module does not increase
\* netHabitableVolume
C28_AddStepFromRecomputed ==
    [][(LET m == CalculateDesignMetrics(currentDesign)
        IN  m.ok /\ MetricsOf(currentDesign) = m.metrics) => C28_AddStep]_vars

-----------------------------------------------------------------------------
(* Properties of validateDesign on a given design *)

\* validateDesign has been applied to the subject and has returned
SubjectValidated == result.fn = "validateDesign" /\ result.ok

RestrictsOnce(design, a, b) ==
    \E i \in 1..Len(design.modules) :
        design.modules[i].id = a /\ Occurrences(design.modules[i].adjacencyRestrictions, b) = 1

IsAdjacencyError(f, a, b) ==
    f.category = "adjacency" /\ f.severity = "error" /\ f.affectedModules = <<a, b>>

AdjacencyErrors(results, a, b) == {i \in 1..Len(results) : IsAdjacencyError(results[i], a, b)}

FindingsAbout(results, severity, text) ==
    {i \in 1..Len(results) : results[i].severity = severity /\ results[i].message[1] = text}

MissingErrors(results, type) ==
    {i \in 1..Len(results) :
        /\ results[i].category = "safety"
        /\ results[i].severity = "error"
        /\ results[i].message = <<"Missing essential module: ", type>>}

\* C15: the design createNewDesign leaves in the store (crew 4, 180 days, cylinder of
\* radius 4 m and height 12 m, no modules, sls_block_1) is validated with one error for each
\* of command, habitation, logistics, exercise, medical and airlock, with no Net Habitable
\* Volume error and no volume-per-crew error, and with a score strictly below 100.
C15_DefaultDesignFindings ==
    Returned({"createNewDesign"}) =>
        /\ \A type \in {"command", "habitation", "logistics", "exercise", "medical", "airlock"} :
                Cardinality(MissingErrors(validationResults, type)) = 1
        /\ FindingsAbout(validationResults, "error",
                         "Net Habitable Volume is below NASA minimum requirement") = {}
        /\ FindingsAbout(validationResults, "error", "Volume per crew member is below minimum") = {}
        /\ complianceScore < 100
        /\ currentDesign.complianceScore < 100

\* createNewDesign has returned with the default design, six errors about missing modules
\* among its findings
C15_Witness ==
    /\ Returned({"createNewDesign"})
    /\ currentDesign.missionParameters.crewSize = 4
    /\ currentDesign.missionParameters.duration = 180
    /\ currentDesign.missionParameters.launchVehicle = "sls_block_1"
    /\ currentDesign.dimensions = CreateDefaultDesign.dimensions
    /\ currentDesign.modules = <<>>
    /\ Cardinality(FindingsAbout(validationResults, "error", "Missing essential module: ")) = 6

\* the multiplier as the ranges of durations give it, in tenths
MultiplierOfRange(duration) ==
    CASE duration <= 180 -> 10
      [] duration \in 181..500 -> 12
      [] duration \in 501..1000 -> 15
      [] duration > 1000 -> 20

\* C17: the required minimum Net Habitable Volume is crewSize x the per-crew minimum x a
\* multiplier of 1.0 for durations up to 180 days, 1.2 for 181 to 500, 1.5 for 501 to 1000
\* and 2.0 above 1000.
C17_RequiredMinimum ==
    result.fn = "calculateRequiredNHV" =>
        result.required.minimum * 10
            = result.crewSize * NHV_PER_CREW_MINIMUM * MultiplierOfRange(result.duration)

\* the minimum has been computed for a mission of exactly 500 days and a crew of 4: 120 m3
C17_Witness ==
    /\ result.fn = "calculateRequiredNHV"
    /\ result.duration = 500
    /\ result.crewSize = 4
    /\ result.required.minimum = 120000

NHVErrors(results) ==
    FindingsAbout(results, "error", "Net Habitable Volume is below NASA minimum requirement")

NHVWarnings(results) ==
    FindingsAbout(results, "warning", "Net Habitable Volume is below optimal requirement")

\* the minimum and the optimum the subject's crew and mission require
RequiredOf(design) ==
    CalculateRequiredNHV(design.missionParameters.crewSize, design.missionParameters.duration)

\* C18: the Net Habitable Volume check yields one error and no warning when the volume is
\* below the required minimum, one warning and no error when it is at least the minimum and
\* below the optimum, and neither when it is at least the optimum.
C18_ErrorOrWarningOrNothing ==
    SubjectValidated =>
        /\ Cardinality(NHVErrors(result.results))
                = (IF subject.netHabitableVolume < RequiredOf(subject).minimum THEN 1 ELSE 0)
        /\ Cardinality(NHVWarnings(result.results))
                = (IF /\ subject.netHabitableVolume >= RequiredOf(subject).minimum
                      /\ subject.netHabitableVolume < RequiredOf(subject).optimal
                   THEN 1 ELSE 0)
        /\ NHVErrors(result.results) = {} \/ NHVWarnings(result.results) = {}

\* a design whose volume is exactly the required minimum has been validated: a warning, no error
C18_Witness ==
    /\ SubjectValidated
    /\ subject.netHabitableVolume = RequiredOf(subject).minimum
    /\ subject.missionParameters.duration = 181
    /\ Cardinality(NHVWarnings(result.results)) = 1
    /\ NHVErrors(result.results) = {}

\* the functional areas that fall short of crewSize x their per-crew volume
ShortAreas(design) ==
    LET crewSize == design.missionParameters.crewSize
        Sum(types) ==
            LET IsOfTypes(module) == module.type \in types
                RECURSIVE Total(_, _)
                Total(list, i) == IF i > Len(list) THEN 0 ELSE list[i].volume + Total(list, i + 1)
            IN  Total(SelectSeq(design.modules, IsOfTypes), 1)
    IN  (IF Sum({"habitation"}) < crewSize * SLEEP_VOLUME_PER_CREW THEN {"sleep"} ELSE {})
        \cup (IF Sum({"laboratory", "command"}) < crewSize * WORK_VOLUME_PER_CREW THEN {"work"} ELSE {})
        \cup (IF Sum({"recreation"}) < crewSize * COMMON_AREA_PER_CREW THEN {"common"} ELSE {})

\* C19: the functional-area check yields, for each of the sleep, work and common areas,
\* exactly one warning when the summed volume of the area's module types is below crewSize
\* x the area's constant and none otherwise, and never an error: as many warnings as there
\* are areas that fall short.
C19_OneWarningPerShortArea ==
    result.fn = "validateFunctionalAreaVolumes" =>
        /\ \A i \in 1..Len(result.results) : result.results[i].severity = "warning"
        /\ Cardinality(FindingsAbout(result.results, "warning", "Insufficient sleep area"))
                = (IF "sleep" \in ShortAreas(subject) THEN 1 ELSE 0)
        /\ Cardinality(FindingsAbout(result.results, "warning", "Insufficient work space"))
                = (IF "work" \in ShortAreas(subject) THEN 1 ELSE 0)
        /\ Len(result.results) = Cardinality(ShortAreas(subject))

EssentialTypes ==
    {ToLowerCase(MODULE_TYPES[i].key) : i \in {j \in 1..Len(MODULE_TYPES) : MODULE_TYPES[j].essential}}

AbsentEssentialTypes(design) == EssentialTypes \ {design.modules[i].type : i \in 1..Len(design.modules)}

\* C20: the safety check yields one error for each essential module type of which the
\* design has no module and none for a type it has, so that the number of these errors
\* is the number of absent essential types whatever other modules there are.
C20_OneErrorPerAbsentType ==
    SubjectValidated =>
        /\ \A type \in EssentialTypes :
                Cardinality(MissingErrors(result.results, type))
                    = (IF type \in AbsentEssentialTypes(subject) THEN 1 ELSE 0)
        /\ Cardinality(FindingsAbout(result.results, "error", "Missing essential module: "))
                = Cardinality(AbsentEssentialTypes(subject))

\* a design with two habitation modules, a laboratory and nothing else essential has been
\* validated with five errors about missing modules
C20_Witness ==
    /\ SubjectValidated
    /\ Cardinality({i \in 1..Len(subject.modules) : subject.modules[i].type = "habitation"}) = 2
    /\ \E i \in 1..Len(subject.modules) : subject.modules[i].type = "laboratory"
    /\ Cardinality(AbsentEssentialTypes(subject)) = 5
    /\ Cardinality(FindingsAbout(result.results, "error", "Missing essential module: ")) = 5

\* the sum of crewCapacity over the airlock modules
AirlockCapacity(design) ==
    LET RECURSIVE Total(_)
        Total(i) == IF i > Len(design.modules) THEN 0
                    ELSE (IF design.modules[i].type = "airlock" THEN design.modules[i].crewCapacity ELSE 0)
                         + Total(i + 1)
    IN  Total(1)

EvacuationErrors(results) ==
    FindingsAbout(results, "error", "Insufficient emergency evacuation capacity")

\* C21: validation yields the insufficient-evacuation-capacity error exactly when
\* emergencyEvacuation is set and the crew capacities of the airlock modules sum to less than
\* crewSize, and no such error when the flag is not set or the sum is at least crewSize.
C21_EvacuationCapacity ==
    SubjectValidated =>
        Cardinality(EvacuationErrors(result.results))
            = (IF /\ subject.missionParameters.emergencyEvacuation
                  /\ AirlockCapacity(subject) < subject.missionParameters.crewSize
               THEN 1 ELSE 0)

\* two airlocks for 2 each serve a crew of 4 under emergency evacuation: no error, although
\* neither airlock alone would do
C21_Witness ==
    /\ SubjectValidated
    /\ subject.missionParameters.emergencyEvacuation
    /\ Cardinality({i \in 1..Len(subject.modules) : subject.modules[i].type = "airlock"}) = 2
    /\ AirlockCapacity(subject) = subject.missionParameters.crewSize
    /\ EvacuationErrors(result.results) = {}

\* the entries of the table whose range contains the duration
RangesHolding(duration) ==
    {i \in 1..Len(MISSION_DURATIONS) :
        MISSION_DURATIONS[i].min <= duration /\ duration <= MISSION_DURATIONS[i].max}

\* the category the table gives: that of the first range holding the duration, else EXTENDED
CategoryOf(duration) ==
    IF RangesHolding(duration) = {} THEN "EXTENDED"
    ELSE MISSION_DURATIONS[CHOOSE i \in RangesHolding(duration) :
                                \A j \in RangesHolding(duration) : i <= j].category

FoodWarnings(results) ==
    FindingsAbout(results, "warning", "Long-duration missions should include food production capability")

\* C22: the mission-duration category is that of the first range of the table whose
\* [min, max] contains the duration, and EXTENDED when no range contains it; validation
\* yields the food-production warning exactly when that category is EXTENDED or PERMANENT
\* and the design has no greenhouse module.
C22_DurationCategory ==
    /\ result.fn = "getMissionDurationCategory" =>
            result.category = CategoryOf(subject.missionParameters.duration)
    /\ SubjectValidated =>
            Cardinality(FoodWarnings(result.results))
                = (IF /\ CategoryOf(subject.missionParameters.duration) \in {"EXTENDED", "PERMANENT"}
                      /\ \A i \in 1..Len(subject.modules) : subject.modules[i].type # "greenhouse"
                   THEN 1 ELSE 0)

\* a mission of 0 days, which no range contains, has been validated with a workshop and no
\* greenhouse, and carries the warning
C22_Witness ==
    /\ SubjectValidated
    /\ RangesHolding(subject.missionParameters.duration) = {}
    /\ subject.modules # <<>>
    /\ \A i \in 1..Len(subject.modules) : subject.modules[i].type # "greenhouse"
    /\ Cardinality(FoodWarnings(result.results)) = 1

\* the multiplier (in tenths) that goes with a category
MultiplierOf(category) ==
    CASE category \in {"SHORT_TERM", "MEDIUM_TERM"} -> 10
      [] category = "LONG_TERM" -> 12
      [] category = "EXTENDED" -> 15
      [] category = "PERMANENT" -> 20

\* C29: for every whole duration from 1 to 10000 days exactly one range of the table
\* contains it, so the category is that range's and never the EXTENDED fallback, and the
\* multiplier of calculateRequiredNHV agrees with the category: 1.0 for SHORT_TERM and
\* MEDIUM_TERM, 1.2 for LONG_TERM, 1.5 for EXTENDED, 2.0 for PERMANENT.
C29_OneRangePerDuration ==
    result.fn = "classifyDuration" =>
        /\ Cardinality(RangesHolding(result.duration)) = 1
        /\ \A i \in RangesHolding(result.duration) : result.category = MISSION_DURATIONS[i].category
        /\ result.multiplier = MultiplierOf(result.category)
        /\ result.required.minimum * 10 = NHV_PER_CREW_MINIMUM * MultiplierOf(result.category)

\* the longest duration has been classified: PERMANENT, with the multiplier 2.0
C29_Witness ==
    /\ result.fn = "classifyDuration"
    /\ result.duration = MaxDuration
    /\ result.category = "PERMANENT"
    /\ result.multiplier = 20

\* the findings of the six sub-checks on a design, in the order volume, launch, crew and
\* mission, safety, modules and adjacency, life support
SubCheckFindings(design) ==
    << ValidateVolumeRequirements(design), ValidateLaunchConstraints(design).results,
       ValidateCrewRequirements(design), ValidateSafetyRequirements(design),
       ValidateModuleRequirements(design), ValidateLifeSupportRequirements(design) >>

\* the sub-checks that yield the finding
SubChecksOf(design, finding) ==
    {k \in 1..6 : \E i \in 1..Len(SubCheckFindings(design)[k]) : SubCheckFindings(design)[k][i] = finding}

\* C23: the list validateDesign returns is grouped by sub-check in the order volume, launch,
\* crew and mission, safety, modules and adjacency, life support: a finding of an earlier
\* sub-check never follows one of a later sub-check, and every finding of every sub-check
\* is in the list.
C23_GroupedBySubCheck ==
    SubjectValidated =>
        /\ Len(result.results)
                = Len(SubCheckFindings(subject)[1]) + Len(SubCheckFindings(subject)[2])
                  + Len(SubCheckFindings(subject)[3]) + Len(SubCheckFindings(subject)[4])
                  + Len(SubCheckFindings(subject)[5]) + Len(SubCheckFindings(subject)[6])
        /\ \A i \in 1..Len(result.results) : Cardinality(SubChecksOf(subject, result.results[i])) = 1
        /\ \A i, j \in 1..Len(result.results) :
                i < j => \A a \in SubChecksOf(subject, result.results[i]) :
                            \A b \in SubChecksOf(subject, result.results[j]) : a <= b

\* the list of a validated design holds findings of the volume, launch, crew, safety and
\* life-support sub-checks
C23_Witness ==
    /\ SubjectValidated
    /\ \A k \in {1, 2, 3, 4, 6} :
            \E i \in 1..Len(result.results) : k \in SubChecksOf(subject, result.results[i])

FairingOf(design) == PAYLOAD_FAIRINGS[ToUpperCase(design.missionParameters.launchVehicle)]

\* the three utilization factors of the design, each min(actual / limit, 1), in thousandths
FactorsOf(design) ==
    << Utilization(GetMaxDiameter(design.dimensions, FairingOf(design).diameter),
                   FairingOf(design).diameter),
       Utilization(GetEffectiveHeight(design.dimensions), FairingOf(design).height),
       Utilization(CalculateStructuralMass(design.dimensions).v, FairingOf(design).mass_limit) >>

UtilizationInfos(results) == FindingsAbout(results, "info", "Low fairing utilization")

LaunchErrors(results) ==
    {i \in 1..Len(results) :
        /\ results[i].category = "mass"
        /\ results[i].severity = "error"
        /\ results[i].complianceStandard # "Launch Vehicle Specifications"}

\* C24: for a known launch vehicle the launch check yields exactly one info finding when
\* the mean of the three utilization factors is below 0.6 and none otherwise, whether or
\* not it has yielded a violation error.
C24_UtilizationInfo ==
    (SubjectValidated /\ ToUpperCase(subject.missionParameters.launchVehicle) \in DOMAIN PAYLOAD_FAIRINGS) =>
        Cardinality(UtilizationInfos(result.results))
            = (IF FactorsOf(subject)[1] + FactorsOf(subject)[2] + FactorsOf(subject)[3] < 3 * 600
               THEN 1 ELSE 0)

\* a habitat too tall for its fairing, and so reported, is also reported as using little of it
C24_Witness ==
    /\ SubjectValidated
    /\ ToUpperCase(subject.missionParameters.launchVehicle) \in DOMAIN PAYLOAD_FAIRINGS
    /\ \E i \in LaunchErrors(result.results) :
            result.results[i].message[1] = "Habitat height exceeds fairing height"
    /\ Cardinality(UtilizationInfos(result.results)) = 1

-----------------------------------------------------------------------------
(* Properties of APIService *)

FallbackMethods == {"getNASAStandards", "getLaunchVehicles", "getMaterials", "getEnvironmentData"}

FallbackOf(method, argument) ==
    CASE method = "getNASAStandards" -> getFallbackNASAStandards
      [] method = "getLaunchVehicles" -> getFallbackLaunchVehicles
      [] method = "getMaterials" -> getFallbackMaterials
      [] method = "getEnvironmentData" -> FallbackEnvironments["lunar_surface"]

\* C16: getNASAStandards, getLaunchVehicles, getMaterials and getEnvironmentData never
\* reject, and a call whose request failed or came back with a non-OK status resolves with
\* the method's hard-coded fallback data.
C16_GracefulDegradation ==
    \A method \in FallbackMethods :
        requests[method].pc = "settled" =>
            /\ requests[method].how = "resolved"
            /\ requests[method].failure # "none" =>
                    requests[method].value = FallbackOf(method, requests[method].argument)

\* a non-OK status has been answered to getEnvironmentData for a destination outside the
\* fallback table, the network has failed getMaterials, and both calls have resolved
C16_Witness ==
    /\ requests["getEnvironmentData"].pc = "settled"
    /\ requests["getEnvironmentData"].failure = "status"
    /\ requests["getEnvironmentData"].argument = "MARS_ORBIT"
    /\ requests["getEnvironmentData"].how = "resolved"
    /\ requests["getMaterials"].pc = "settled"
    /\ requests["getMaterials"].failure = "network"
    /\ requests["getMaterials"].how = "resolved"

-----------------------------------------------------------------------------
(* Properties of HabitatGeometry *)

\* every field the active shape requires is present and strictly positive
AllPositive(d) == \A k \in ShapeFields(d.shape) : Has(d, k) /\ d.f[k] > 0

\* C12: calculateVolume fails, with no default put in its place, whenever a dimension the
\* active shape requires is zero, negative or missing, and returns a number only when
\* every required field is present and strictly positive.
C12_VolumeFailsFast ==
    (result.fn = "geometry" /\ "volume" \in DOMAIN result /\ subject.dimensions.shape # "custom") =>
        (result.volume.ok <=> AllPositive(subject.dimensions))

\* C13: calculateSurfaceArea follows the same fail-fast contract, and the two functions
\* accept and reject exactly the same dimension records.
C13_SameRecordsAccepted ==
    (result.fn = "geometry" /\ "volume" \in DOMAIN result /\ "area" \in DOMAIN result) =>
        /\ result.area.ok = result.volume.ok
        /\ subject.dimensions.shape # "custom" => (result.area.ok <=> AllPositive(subject.dimensions))

\* C14: generateRecommendedDimensions returns a record of the requested shape, with that
\* shape's fields, for cylinder, sphere and modular, and fails with no fallback record for
\* torus, dome, inflatable and custom.
C14_RecommendedShapes ==
    result.fn = "generateRecommendedDimensions" =>
        IF result.shape \in {"cylinder", "sphere", "modular"}
        THEN /\ result.dimensions.ok
             /\ result.dimensions.v.shape = result.shape
             /\ DOMAIN result.dimensions.v.f = ShapeFields(result.shape)
        ELSE ~result.dimensions.ok

\* a torus was asked for, the aspect ratio left out, and the call failed
C14_Witness ==
    /\ result.fn = "generateRecommendedDimensions"
    /\ result.shape = "torus"
    /\ result.aspectRatio = <<>>
    /\ ~result.dimensions.ok

====
